---- MODULE Spec2Model ----
(***************************************************************************)
(* Clawd4Dummies: the scan pipeline of the Electron GUI.                   *)
(*                                                                         *)
(*   electron/main.cjs        main process: IPC handlers, input validation,*)
(*                            scanner subprocess handle                    *)
(*   hooks/useScanner         renderer: startScan / cancelScan / listeners *)
(*   stores/scanStore.ts      renderer: the zustand store                  *)
(*   normalizeScanResult      renderer: raw result -> canonical ScanResult *)
(*   implementation plan      calculate_risk (the scoring algorithm)       *)
(*                                                                         *)
(* Strings are sequences of one-character strings, so that toLowerCase,    *)
(* toUpperCase, replace and slice are computed character by character.     *)
(* Scores are fixed-point numbers in thousandths (9.5 is 9500).            *)
(***************************************************************************)
EXTENDS Integers, Sequences, FiniteSets, TLC

VARIABLES
    \* ---- renderer: scanStore.ts state
    status,          \* 'idle' | 'scanning' | 'complete' | 'error'
    scanResult,      \* [null |-> BOOLEAN, v |-> normalized ScanResult]
    findings,        \* Finding[], the store's copy of scanResult.findings
    progress,        \* ScanProgress[]
    error,           \* [null |-> BOOLEAN]  (the message text is not modelled)
    modules,         \* ScanModule[]: [id, enabled]
    expandedFindings,\* Set<string> of finding ids
    filterSeverity,  \* Severity | 'ALL'
    \* ---- renderer: React components and ipcRenderer
    mounted,         \* the components with a live useScanner instance
    listeners,       \* per channel and component: handlers registered
    \* ---- renderer: useScanner.ts
    mode,            \* "electron" (window.scanner present) | "demo"
    viewMode,        \* viewModeStore: "user" | "dev"
    demoTask,        \* per startScan call in demo mode: the module list the
                     \* loop iterates over and its position in it
    \* ---- main process: main.cjs
    pythonProcess,   \* 0 = null, otherwise the id of the ChildProcess object
    pythonCommand,   \* "unchecked" | "found" | "null": the cached executable
    proc,            \* the ChildProcess objects spawned so far
    \* ---- IPC between the two
    toMain,          \* renderer -> main invoke requests, FIFO
    toRenderer,      \* main -> renderer events and invoke replies, FIFO
    \* ---- bookkeeping about the run (not program state)
    nScans,          \* number of startScan calls made so far
    cancelled,       \* scans for which cancelScan has been requested
    resultOf,        \* the scan whose result the store holds (0 = none)
    \* ---- one call of a pure function: its input and its outcome
    call             \* [fn |-> name, in |-> input, out |-> outcome]

vars == << status, scanResult, findings, progress, error, modules, mounted,
           listeners, expandedFindings, filterSeverity, mode, viewMode,
           demoTask,
           pythonProcess, pythonCommand, proc, toMain, toRenderer, nScans,
           cancelled, resultOf, call >>

\* the store, and what React has rendered from it
storeVars == << status, scanResult, findings, progress, error, modules, mounted,
               listeners, expandedFindings, filterSeverity >>
mainVars  == << pythonProcess, pythonCommand, proc >>
scanVars  == << status, scanResult, findings, progress, error, modules, mounted,
                listeners, expandedFindings, filterSeverity, mode, viewMode,
                demoTask,
                pythonProcess, pythonCommand, proc, toMain, toRenderer, nScans,
                cancelled, resultOf >>

-----------------------------------------------------------------------------
(* Bounds of the model.                                                    *)

\* startScan calls explored in one behaviour
MaxScans == 2
\* stdout chunks "Running <module>..." one scanner subprocess may print
MaxChunks == 1
\* length of the finding list handed to the risk engine / the normalizer
MaxFindings == 2
\* length of a filename typed into the export dialog
MaxNameLen == 3
\* length of a module list sent with scanner:start
\* length of a remediation step string drawn letter by letter
MaxStepLen == 4
\* length of a list of remediation steps
MaxSteps == 2
MaxModules == 2

-----------------------------------------------------------------------------
(* Characters and strings.                                                 *)

LowerAlpha == << "a","b","c","d","e","f","g","h","i","j","k","l","m",
                 "n","o","p","q","r","s","t","u","v","w","x","y","z" >>
UpperAlpha == << "A","B","C","D","E","F","G","H","I","J","K","L","M",
                 "N","O","P","Q","R","S","T","U","V","W","X","Y","Z" >>
Digits     == { "0","1","2","3","4","5","6","7","8","9" }

Range(s) == { s[i] : i \in DOMAIN s }

IsLower(c) == c \in Range(LowerAlpha)
IsUpper(c) == c \in Range(UpperAlpha)
IndexIn(alpha, c) == CHOOSE i \in DOMAIN alpha : alpha[i] = c

\* String.prototype.toLowerCase / toUpperCase, one character
toLowerChar(c) == IF IsUpper(c) THEN LowerAlpha[IndexIn(UpperAlpha, c)] ELSE c
toUpperChar(c) == IF IsLower(c) THEN UpperAlpha[IndexIn(LowerAlpha, c)] ELSE c

toLowerCase(s) == [ i \in DOMAIN s |-> toLowerChar(s[i]) ]
toUpperCase(s) == [ i \in DOMAIN s |-> toUpperChar(s[i]) ]

\* s.replace(/[class]/g, ''): drop every character for which Drop holds
RECURSIVE StripChars(_, _)
StripChars(s, dropSet) ==
    IF s = << >> THEN << >>
    ELSE IF Head(s) \in dropSet THEN StripChars(Tail(s), dropSet)
         ELSE << Head(s) >> \o StripChars(Tail(s), dropSet)

\* keep only the characters of keepSet: s.replace(/[^class]/g, '')
RECURSIVE KeepChars(_, _)
KeepChars(s, keepSet) ==
    IF s = << >> THEN << >>
    ELSE IF Head(s) \in keepSet THEN << Head(s) >> \o KeepChars(Tail(s), keepSet)
         ELSE KeepChars(Tail(s), keepSet)

\* s.slice(0, n)
SliceTo(s, n) == IF Len(s) <= n THEN s ELSE SubSeq(s, 1, n)

\* s.trim(): strip leading and trailing blanks
RECURSIVE TrimLeft(_)
TrimLeft(s) == IF s # << >> /\ Head(s) = " " THEN TrimLeft(Tail(s)) ELSE s
RECURSIVE TrimRight(_)
TrimRight(s) ==
    IF s # << >> /\ s[Len(s)] = " " THEN TrimRight(SubSeq(s, 1, Len(s) - 1)) ELSE s
Trim(s) == TrimRight(TrimLeft(s))

\* does t occur in s at position i (1-based)?
OccursAt(s, t, i) ==
    /\ i >= 1
    /\ i + Len(t) - 1 <= Len(s)
    /\ \A k \in 1..Len(t) : s[i + k - 1] = t[k]
Contains(s, t) == \E i \in 1..Len(s) : OccursAt(s, t, i)

\* string literals used by the program, spelled out
S_port       == << "p","o","r","t" >>
S_credential == << "c","r","e","d","e","n","t","i","a","l" >>
S_config     == << "c","o","n","f","i","g" >>
S_process    == << "p","r","o","c","e","s","s" >>
S_permission == << "p","e","r","m","i","s","s","i","o","n" >>
S_network    == << "n","e","t","w","o","r","k" >>
S_clawdbot   == << "c","l","a","w","d","b","o","t" >>
S_html       == << "h","t","m","l" >>
S_json       == << "j","s","o","n" >>
S_markdown   == << "m","a","r","k","d","o","w","n" >>
S_console    == << "c","o","n","s","o","l","e" >>
S_report_html == << "r","e","p","o","r","t",".","h","t","m","l" >>

-----------------------------------------------------------------------------
(* main.cjs: validation of IPC input.                                      *)
(* An IPC argument is `unknown`: a module list is modelled as              *)
(*   [isArray |-> BOOLEAN, items |-> Seq([isString |-> BOOLEAN, s |-> Str])]*)
(* A validator returns [ok |-> TRUE, v |-> value] or, when it throws,      *)
(* [ok |-> FALSE, v |-> << >>, err |-> reason].                            *)

ALLOWED_MODULES ==
    { S_port, S_credential, S_config, S_process, S_permission, S_network,
      S_clawdbot }

Returned(v) == [ ok |-> TRUE, v |-> v, err |-> "" ]
Threw(why)  == [ ok |-> FALSE, v |-> << >>, err |-> why ]

\* module.toLowerCase().replace(/[^a-z0-9_]/g, '')
SanitizeModule(s) ==
    KeepChars(toLowerCase(s), Range(LowerAlpha) \cup Digits \cup {"_"})

\* the for-loop of validateModules: the first offending element throws
RECURSIVE ValidateLoop(_, _)
ValidateLoop(items, validated) ==
    IF items = << >> THEN Returned(validated)
    ELSE LET module == Head(items) IN
         IF ~module.isString THEN Threw("module names must be strings")
         ELSE LET sanitized == SanitizeModule(module.s) IN
              IF sanitized \notin ALLOWED_MODULES THEN Threw("Invalid module")
              ELSE ValidateLoop(Tail(items), Append(validated, sanitized))

validateModules(ms) ==
    IF ~ms.isArray THEN Threw("modules must be an array")
    ELSE LET r == ValidateLoop(ms.items, << >>) IN
         IF ~r.ok THEN r
         ELSE IF Len(r.v) = 0 THEN Threw("At least one valid module is required")
         ELSE r

ALLOWED_FORMATS == { S_html, S_json, S_markdown, S_console }

\* format: [isString |-> BOOLEAN, s |-> Str]
validateExportFormat(format) ==
    IF ~format.isString THEN Threw("format must be a string")
    ELSE LET sanitized == KeepChars(toLowerCase(format.s), Range(LowerAlpha)) IN
         IF sanitized \notin ALLOWED_FORMATS THEN Threw("Invalid format")
         ELSE Returned(sanitized)

\* .replace(/\.\./g, ''): leftmost, non-overlapping occurrences of ".."
RECURSIVE RemoveDotDot(_)
RemoveDotDot(s) ==
    IF Len(s) < 2 THEN s
    ELSE IF s[1] = "." /\ s[2] = "." THEN RemoveDotDot(SubSeq(s, 3, Len(s)))
         ELSE << Head(s) >> \o RemoveDotDot(Tail(s))

\* the character class of .replace(/[<>:"|?*\\/]/g, '')
ReservedChars == { "<", ">", ":", "\"", "|", "?", "*", "\\", "/" }

\* .replace(/^[A-Za-z]:/g, '')
RemoveDriveLetter(s) ==
    IF Len(s) >= 2 /\ (IsLower(s[1]) \/ IsUpper(s[1])) /\ s[2] = ":"
    THEN SubSeq(s, 3, Len(s)) ELSE s

\* .replace(/^\//, '')
RemoveLeadingSlash(s) == IF s # << >> /\ s[1] = "/" THEN Tail(s) ELSE s

\* .slice(0, 255)
MaxFilenameLen == 255

\* the chain of replaces of validateExportOptions, in the order of the code
SanitizeFilename(name) ==
    SliceTo(
      RemoveLeadingSlash(
        RemoveDriveLetter(
          StripChars(RemoveDotDot(name), ReservedChars))),
      MaxFilenameLen)

\* options: [isObject |-> BOOLEAN, hasName |-> BOOLEAN, filename |-> Str]
\* (isObject: typeof options === 'object' && options !== null;
\*  hasName: typeof options.filename === 'string').  Never throws.
validateExportOptions(options) ==
    IF ~options.isObject THEN [ filename |-> S_report_html ]
    ELSE IF ~options.hasName THEN [ filename |-> S_report_html ]
    ELSE LET filename == SanitizeFilename(options.filename) IN
         IF filename = << >> \/ Trim(filename) = << >>
         THEN [ filename |-> S_report_html ]
         ELSE [ filename |-> filename ]

-----------------------------------------------------------------------------
(* JavaScript values that cross the process boundary.                      *)
(* A scalar is [t |-> type, s |-> characters, n |-> number]; t is one of   *)
(* "undef", "null", "str", "num", "bool", "obj".  An array-valued property *)
(* is [t |-> "arr" | "undef" | ..., a |-> elements].                       *)

Undefined == [ t |-> "undef", s |-> << >>, n |-> 0 ]
Null      == [ t |-> "null",  s |-> << >>, n |-> 0 ]
Str(s)    == [ t |-> "str",   s |-> s,     n |-> 0 ]
Num(n)    == [ t |-> "num",   s |-> << >>, n |-> n ]
Bool(b)   == [ t |-> "bool",  s |-> << >>, n |-> IF b THEN 1 ELSE 0 ]
Obj       == [ t |-> "obj",   s |-> << >>, n |-> 0 ]

Arr(a)    == [ t |-> "arr",   a |-> a ]
NoArr     == [ t |-> "undef", a |-> << >> ]

\* a ?? b
Nullish(v) == v.t \in { "undef", "null" }
\* a || b, which also skips 0, false and ''
Coalesce_falsy(a, b) ==
    IF \/ a.t \in { "undef", "null" }
       \/ (a.t \in { "num", "bool" } /\ a.n = 0)
       \/ (a.t = "str" /\ a.s = << >>)
    THEN b ELSE a
Coalesce(a, b) == IF Nullish(a) THEN b ELSE a

\* !v  is FALSE
Truthy(v) ==
    CASE v.t = "str"  -> v.s # << >>
      [] v.t = "num"  -> v.n # 0
      [] v.t = "bool" -> v.n = 1
      [] v.t = "obj"  -> TRUE
      [] OTHER        -> FALSE

S_CRITICAL == << "C","R","I","T","I","C","A","L" >>
S_HIGH     == << "H","I","G","H" >>
S_MEDIUM   == << "M","E","D","I","U","M" >>
S_LOW      == << "L","O","W" >>
S_INFO     == << "I","N","F","O" >>
S_SAFE     == << "S","A","F","E" >>
S_safe     == << "s","a","f","e" >>
S_PORT_EXPOSURE  == << "P","O","R","T","_","E","X","P","O","S","U","R","E" >>
S_AUTHENTICATION == << "A","U","T","H","E","N","T","I","C","A","T","I","O","N" >>
S_CREDENTIALS    == << "C","R","E","D","E","N","T","I","A","L","S" >>
S_CONFIGURATION  == << "C","O","N","F","I","G","U","R","A","T","I","O","N" >>
S_PERMISSIONS    == << "P","E","R","M","I","S","S","I","O","N","S" >>
S_NETWORK        == << "N","E","T","W","O","R","K" >>
S_unknown        == << "u","n","k","n","o","w","n" >>

Severities == { S_CRITICAL, S_HIGH, S_MEDIUM, S_LOW, S_INFO }
RiskLevels == { S_CRITICAL, S_HIGH, S_MEDIUM, S_LOW, S_SAFE }
Categories == { S_PORT_EXPOSURE, S_AUTHENTICATION, S_CREDENTIALS,
                S_CONFIGURATION, S_PERMISSIONS, S_NETWORK }

-----------------------------------------------------------------------------
(* normalizeScanResult and its helpers.                                    *)
(* `x.toUpperCase()` on a value that is not a string is a TypeError: the   *)
(* ...Throws operators say when a helper throws, the helper itself gives   *)
(* the value it returns when it does not.                                  *)

\* normalizeRiskLevelString(level): level.toUpperCase() with no guard
normalizeRiskLevelStringThrows(level) == level.t # "str"
normalizeRiskLevelString(level) ==
    LET normalized == toUpperCase(level.s) IN
    IF normalized \in RiskLevels THEN normalized ELSE S_SAFE

\* normalizeSeverity(severity): `if (!severity) return 'INFO'`, then toUpperCase
normalizeSeverityThrows(severity) == Truthy(severity) /\ severity.t # "str"
normalizeSeverity(severity) ==
    IF ~Truthy(severity) THEN S_INFO
    ELSE LET normalized == toUpperCase(severity.s) IN
         IF normalized \in Severities THEN normalized ELSE S_INFO

\* normalizeCategory(category)
normalizeCategoryThrows(category) == Truthy(category) /\ category.t # "str"
normalizeCategory(category) ==
    IF ~Truthy(category) THEN S_CONFIGURATION
    ELSE LET normalized == toUpperCase(category.s) IN
         IF normalized \in Categories THEN normalized ELSE S_CONFIGURATION

\* s.indexOf(t): 0-based position of the first occurrence, -1 when none
IndexOf(s, t) ==
    IF Contains(s, t)
    THEN (CHOOSE i \in 1..Len(s) :
            OccursAt(s, t, i) /\ \A j \in 1..(i - 1) : ~OccursAt(s, t, j)) - 1
    ELSE -1

\* `colonIndex < 50`
ColonLimit == 50

\* a step normalizer that splits a string at its first ":" whatever follows
normalizeStep_any_colon(s, index) ==
    IF s.isString
    THEN LET colonIndex == IndexOf(s.s, << ":" >>) IN
         IF colonIndex > -1 /\ colonIndex < ColonLimit
         THEN LET code == Trim(SubSeq(s.s, colonIndex + 2, Len(s.s))) IN
              [ step        |-> Num(index + 1),
                instruction |-> Str(SubSeq(s.s, 1, colonIndex)),
                code        |-> IF Len(code) > 0 THEN Str(code) ELSE Undefined,
                filePath    |-> Undefined ]
         ELSE [ step        |-> Num(index + 1),
                instruction |-> Str(s.s),
                code        |-> Undefined,
                filePath    |-> Undefined ]
    ELSE [ step        |-> Coalesce(s.step, Num(index + 1)),
           instruction |-> Coalesce(s.instruction, Str(<< >>)),
           code        |-> s.code,
           filePath    |-> Coalesce(s.file_path, s.filePath) ]

\* one element of rawSteps.map((s, index) => ...); index is 0-based.
\* A raw step is [isString, s, step, instruction, code, file_path, filePath].
normalizeStep(s, index) ==
    IF s.isString
    THEN LET colonIndex == IndexOf(s.s, << ":", " " >>) IN
         IF colonIndex > -1 /\ colonIndex < ColonLimit
         THEN LET instruction == SubSeq(s.s, 1, colonIndex)
                  code == Trim(SubSeq(s.s, colonIndex + 3, Len(s.s)))
              IN  [ step        |-> Num(index + 1),
                    instruction |-> Str(instruction),
                    code        |-> IF Len(code) > 0 THEN Str(code) ELSE Undefined,
                    filePath    |-> Undefined ]
         ELSE [ step        |-> Num(index + 1),
                instruction |-> Str(s.s),
                code        |-> Undefined,
                filePath    |-> Undefined ]
    ELSE [ step        |-> Coalesce(s.step, Num(index + 1)),
           instruction |-> Coalesce(s.instruction, Str(<< >>)),
           code        |-> s.code,
           filePath    |-> Coalesce(s.file_path, s.filePath) ]

\* normalizeRemediationSteps(rawSteps)
normalizeRemediationSteps(rawSteps) ==
    IF rawSteps.t # "arr" THEN << >>
    ELSE [ i \in DOMAIN rawSteps.a |-> normalizeStep(rawSteps.a[i], i - 1) ]

\* a finding normalizer that reads the backend's cvss_score only
normalizeFinding_snake_cvss(f) ==
    [ id               |-> Coalesce(f.id, Str(S_unknown)),
      title            |-> Coalesce(f.title,
                             Str(<< "U","n","k","n","o","w","n"," ",
                                    "F","i","n","d","i","n","g" >>)),
      description      |-> Coalesce(f.description, Str(<< >>)),
      severity         |-> normalizeSeverity(f.severity),
      category         |-> normalizeCategory(f.category),
      cvssScore        |-> Coalesce(f.cvss_score, Num(0)),
      location         |-> f.location,
      remediation      |-> Coalesce(f.remediation, Str(<< >>)),
      remediationSteps |-> normalizeRemediationSteps(
                             Coalesce(Coalesce(f.remediation_steps,
                                               f.remediationSteps), Arr(<< >>))),
      references       |-> Coalesce(Coalesce(f.references, f.reference_links),
                                    Arr(<< >>)) ]

\* the arrow function of (raw.findings ?? []).map(...)
normalizeFinding(f) ==
    [ id               |-> Coalesce(f.id, Str(S_unknown)),
      title            |-> Coalesce(f.title,
                             Str(<< "U","n","k","n","o","w","n"," ",
                                    "F","i","n","d","i","n","g" >>)),
      description      |-> Coalesce(f.description, Str(<< >>)),
      severity         |-> normalizeSeverity(f.severity),
      category         |-> normalizeCategory(f.category),
      cvssScore        |-> Coalesce(Coalesce(f.cvss_score, f.cvssScore), Num(0)),
      location         |-> f.location,
      remediation      |-> Coalesce(f.remediation, Str(<< >>)),
      remediationSteps |-> normalizeRemediationSteps(
                             Coalesce(Coalesce(f.remediation_steps,
                                               f.remediationSteps), Arr(<< >>))),
      references       |-> Coalesce(Coalesce(f.references, f.reference_links),
                                    Arr(<< >>)) ]

normalizeFindingThrows(f) ==
    normalizeSeverityThrows(f.severity) \/ normalizeCategoryThrows(f.category)

\* obj?.field for a scalar property, obj?.field for an array property
Opt(obj, field)    == IF Nullish(obj) THEN Undefined ELSE obj[field]
OptArr(obj, field) == IF Nullish(obj) THEN NoArr ELSE obj[field]

\* new Date().toISOString() at clock reading k
DigitChar == << "0","1","2","3","4","5","6","7","8","9" >>
toISOString(k) == << "T", DigitChar[k + 1] >>

normalizeSystemInfo(raw) ==
    [ platform        |-> Coalesce(Coalesce(Opt(raw.system_info, "platform"),
                                            Opt(raw.systemInfo, "platform")),
                                   Str(S_unknown)),
      platformDisplay |-> Coalesce(Coalesce(Coalesce(
                                     Opt(raw.system_info, "platform_display"),
                                     Opt(raw.system_info, "platformDisplay")),
                                     Opt(raw.systemInfo, "platformDisplay")),
                                   Str(<< "U","n","k","n","o","w","n"," ",
                                          "P","l","a","t","f","o","r","m" >>)),
      pythonVersion   |-> Coalesce(Coalesce(Coalesce(
                                     Opt(raw.system_info, "python_version"),
                                     Opt(raw.system_info, "pythonVersion")),
                                     Opt(raw.systemInfo, "pythonVersion")),
                                   Str(<< "N","/","A" >>)),
      username        |-> Coalesce(Coalesce(Opt(raw.system_info, "username"),
                                            Opt(raw.systemInfo, "username")),
                                   Str(S_unknown)),
      isAdmin         |-> Coalesce(Coalesce(Coalesce(
                                     Opt(raw.system_info, "is_admin"),
                                     Opt(raw.system_info, "isAdmin")),
                                     Opt(raw.systemInfo, "isAdmin")),
                                   Bool(FALSE)),
      localIps        |-> Coalesce(Coalesce(Coalesce(
                                     OptArr(raw.system_info, "local_ips"),
                                     OptArr(raw.system_info, "localIps")),
                                     OptArr(raw.systemInfo, "localIps")),
                                   Arr(<< >>)) ]

\* normalizeScanResult(raw), called when the clock reads `now`
normalizeScanResult(raw, now) ==
    [ scanId           |-> Coalesce(Coalesce(raw.scan_id, raw.scanId),
                                    Str(S_unknown)),
      timestamp        |-> Coalesce(raw.timestamp, Str(toISOString(now))),
      durationSeconds  |-> Coalesce(Coalesce(raw.duration_seconds,
                                             raw.durationSeconds), Num(0)),
      findings         |-> LET fs == Coalesce(raw.findings, Arr(<< >>)).a IN
                           [ i \in DOMAIN fs |-> normalizeFinding(fs[i]) ],
      systemInfo       |-> normalizeSystemInfo(raw),
      overallRiskScore |-> Coalesce(Coalesce(raw.overall_risk_score,
                                             raw.overallRiskScore), Num(0)),
      riskLevel        |-> normalizeRiskLevelString(
                             Coalesce(Coalesce(raw.risk_level, raw.riskLevel),
                                      Str(S_safe))),
      criticalCount    |-> Coalesce(Coalesce(Opt(raw.summary, "critical_count"),
                                             raw.criticalCount), Num(0)),
      highCount        |-> Coalesce(Coalesce(Opt(raw.summary, "high_count"),
                                             raw.highCount), Num(0)),
      mediumCount      |-> Coalesce(Coalesce(Opt(raw.summary, "medium_count"),
                                             raw.mediumCount), Num(0)),
      lowCount         |-> Coalesce(Coalesce(Opt(raw.summary, "low_count"),
                                             raw.lowCount), Num(0)),
      infoCount        |-> Coalesce(Coalesce(Opt(raw.summary, "info_count"),
                                             raw.infoCount), Num(0)) ]

\* the calls that raise a TypeError inside normalizeScanResult
normalizeScanResultThrows(raw) ==
    \/ raw.findings.t \notin { "arr", "undef", "null" }
    \/ /\ raw.findings.t = "arr"
       /\ \E i \in DOMAIN raw.findings.a : normalizeFindingThrows(raw.findings.a[i])
    \/ normalizeRiskLevelStringThrows(
         Coalesce(Coalesce(raw.risk_level, raw.riskLevel), Str(S_safe)))

-----------------------------------------------------------------------------
(* Raw results as the two producers write them.                            *)
(* The interfaces RawScanResult, RawSystemInfo, RawFinding and             *)
(* RawRemediationStep declare every key optional, in snake_case (Python    *)
(* backend) and in camelCase (demo path).  A raw object is a record that   *)
(* carries all declared keys, the absent ones holding Undefined / NoArr.   *)
(* EncodeX(conv, values) writes one set of field values in convention conv.*)

EncodeStep(conv, sv) ==
    [ isString    |-> sv.isString,
      s           |-> sv.s,
      step        |-> sv.step,
      instruction |-> sv.instruction,
      code        |-> sv.code,
      file_path   |-> IF conv = "snake" THEN sv.path ELSE Undefined,
      filePath    |-> IF conv = "camel" THEN sv.path ELSE Undefined ]

EncodeSteps(conv, steps) ==
    IF steps.t # "arr" THEN steps
    ELSE Arr([ i \in DOMAIN steps.a |-> EncodeStep(conv, steps.a[i]) ])

EncodeFinding(conv, fv) ==
    [ id                |-> fv.id,
      title             |-> fv.title,
      description       |-> fv.description,
      severity          |-> fv.severity,
      category          |-> fv.category,
      location          |-> fv.location,
      remediation       |-> fv.remediation,
      cvss_score        |-> IF conv = "snake" THEN fv.cvss ELSE Undefined,
      cvssScore         |-> IF conv = "camel" THEN fv.cvss ELSE Undefined,
      remediation_steps |-> IF conv = "snake" THEN EncodeSteps(conv, fv.steps) ELSE NoArr,
      remediationSteps  |-> IF conv = "camel" THEN EncodeSteps(conv, fv.steps) ELSE NoArr,
      reference_links   |-> IF conv = "snake" THEN fv.refs ELSE NoArr,
      references        |-> IF conv = "camel" THEN fv.refs ELSE NoArr,
      \* RawFinding declares no key for the fix prompt; the Finding model's
      \* own name is used in both writings
      fixPrompt         |-> fv.fixPrompt ]

EncodeFindings(conv, fs) ==
    IF fs.t # "arr" THEN fs
    ELSE Arr([ i \in DOMAIN fs.a |-> EncodeFinding(conv, fs.a[i]) ])

EncodeSystemInfo(conv, want, sys) ==
    LET here == (conv = want) /\ sys.t = "obj" IN
    [ t                |-> IF conv = want THEN sys.t ELSE "undef",
      s                |-> << >>,
      n                |-> 0,
      platform         |-> IF here THEN sys.platform ELSE Undefined,
      username         |-> IF here THEN sys.username ELSE Undefined,
      platform_display |-> IF here /\ conv = "snake" THEN sys.display ELSE Undefined,
      python_version   |-> IF here /\ conv = "snake" THEN sys.pyver ELSE Undefined,
      is_admin         |-> IF here /\ conv = "snake" THEN sys.isAdmin ELSE Undefined,
      local_ips        |-> IF here /\ conv = "snake" THEN sys.ips ELSE NoArr,
      platformDisplay  |-> IF here /\ conv = "camel" THEN sys.display ELSE Undefined,
      pythonVersion    |-> IF here /\ conv = "camel" THEN sys.pyver ELSE Undefined,
      isAdmin          |-> IF here /\ conv = "camel" THEN sys.isAdmin ELSE Undefined,
      localIps         |-> IF here /\ conv = "camel" THEN sys.ips ELSE NoArr ]

\* the backend nests the counts in `summary`, the demo path has them flat
EncodeSummary(conv, counts) ==
    LET here == conv = "snake" /\ counts.t = "obj" IN
    [ t              |-> IF here THEN "obj" ELSE "undef",
      s              |-> << >>,
      n              |-> 0,
      critical_count |-> IF here THEN counts.critical ELSE Undefined,
      high_count     |-> IF here THEN counts.high ELSE Undefined,
      medium_count   |-> IF here THEN counts.medium ELSE Undefined,
      low_count      |-> IF here THEN counts.low ELSE Undefined,
      info_count     |-> IF here THEN counts.info ELSE Undefined ]

EncodeResult(conv, rv) ==
    LET snake == conv = "snake"
        camel == conv = "camel"
        flat  == camel /\ rv.counts.t = "obj"
    IN
    [ timestamp          |-> rv.timestamp,
      findings           |-> EncodeFindings(conv, rv.findings),
      scan_id            |-> IF snake THEN rv.scanId ELSE Undefined,
      duration_seconds   |-> IF snake THEN rv.duration ELSE Undefined,
      system_info        |-> EncodeSystemInfo(conv, "snake", rv.sys),
      overall_risk_score |-> IF snake THEN rv.score ELSE Undefined,
      risk_level         |-> IF snake THEN rv.level ELSE Undefined,
      summary            |-> EncodeSummary(conv, rv.counts),
      scanId             |-> IF camel THEN rv.scanId ELSE Undefined,
      durationSeconds    |-> IF camel THEN rv.duration ELSE Undefined,
      systemInfo         |-> EncodeSystemInfo(conv, "camel", rv.sys),
      overallRiskScore   |-> IF camel THEN rv.score ELSE Undefined,
      riskLevel          |-> IF camel THEN rv.level ELSE Undefined,
      criticalCount      |-> IF flat THEN rv.counts.critical ELSE Undefined,
      highCount          |-> IF flat THEN rv.counts.high ELSE Undefined,
      mediumCount        |-> IF flat THEN rv.counts.medium ELSE Undefined,
      lowCount           |-> IF flat THEN rv.counts.low ELSE Undefined,
      infoCount          |-> IF flat THEN rv.counts.info ELSE Undefined ]

-----------------------------------------------------------------------------
(* Field values the raw results are built from.                            *)

S_F1      == << "F","1" >>
S_F2      == << "F","2" >>
S_high    == << "h","i","g","h" >>
S_Title   == << "O","p","e","n"," ","p","o","r","t" >>
S_Where   == << "p","o","r","t"," ","8","0" >>
S_Fix     == << "C","l","o","s","e"," ","i","t" >>
S_Url     == << "h","t","t","p","s",":","/","/","x" >>
S_RunCmd  == << "R","u","n",":"," ","l","s" >>
S_Restart == << "R","e","s","t","a","r","t" >>
S_Path    == << "/","e","t","c","/","x" >>

StringStep(s) ==
    [ isString |-> TRUE, s |-> s, step |-> Undefined, instruction |-> Undefined,
      code |-> Undefined, path |-> Undefined ]
ObjectStep(step, instruction, code, path) ==
    [ isString |-> FALSE, s |-> << >>, step |-> step, instruction |-> instruction,
      code |-> code, path |-> path ]

StepsInputs ==
    { NoArr,
      Arr(<< >>),
      Arr(<< StringStep(S_RunCmd) >>),
      Arr(<< StringStep(S_Restart), StringStep(S_RunCmd) >>),
      Arr(<< ObjectStep(Num(1), Str(S_Restart), Undefined, Str(S_Path)) >>),
      Arr(<< ObjectStep(Undefined, Undefined, Str(S_RunCmd), Undefined),
             StringStep(S_Restart) >>) }

SeverityInputs ==
    { Undefined, Null,
      Str(<< "c","r","i","t","i","c","a","l" >>), Str(<< "H","i","g","h" >>),
      Str(<< "m","e","d","i","u","m" >>), Str(S_LOW), Str(<< "i","n","f","o" >>),
      Str(<< "b","o","g","u","s" >>), Str(<< >>),
      Num(5), Num(0), Bool(TRUE), Bool(FALSE), Obj }

CategoryInputs ==
    { Undefined, Str(<< "n","e","t","w","o","r","k" >>),
      Str(<< "C","r","e","d","e","n","t","i","a","l","s" >>),
      Str(<< "b","o","g","u","s" >>), Num(3), Obj }

RiskLevelInputs ==
    { Undefined, Null, Str(S_high), Str(S_CRITICAL), Str(S_safe),
      Str(<< "b","o","g","u","s" >>), Str(<< >>), Num(7), Num(0), Bool(FALSE), Obj }

BaseFinding ==
    [ id          |-> Str(S_F1),
      title       |-> Str(S_Title),
      description |-> Str(S_Title),
      severity    |-> Str(S_high),
      category    |-> Str(<< "n","e","t","w","o","r","k" >>),
      cvss        |-> Num(7500),
      location    |-> Str(S_Where),
      remediation |-> Str(S_Fix),
      steps       |-> Arr(<< StringStep(S_RunCmd) >>),
      refs        |-> Arr(<< S_Url >>),
      fixPrompt   |-> Str(S_Fix) ]

\* the base finding with one field changed
FindingInputs ==
    { [ BaseFinding EXCEPT !.severity = v ] : v \in SeverityInputs }
    \cup { [ BaseFinding EXCEPT !.category = v ] : v \in CategoryInputs }
    \cup { [ BaseFinding EXCEPT !.cvss = v ] : v \in { Undefined, Num(9500), Num(0) } }
    \cup { [ BaseFinding EXCEPT !.id = v ] : v \in { Undefined, Str(S_F2) } }
    \cup { [ BaseFinding EXCEPT !.title = Undefined, !.description = Undefined,
                                !.remediation = Undefined, !.location = Undefined ] }
    \cup { [ BaseFinding EXCEPT !.steps = v ] : v \in StepsInputs }
    \cup { [ BaseFinding EXCEPT !.refs = v ] : v \in { NoArr, Arr(<< >>) } }

\* findings that differ in severity only, for lists
SeverityFindings ==
    { [ BaseFinding EXCEPT !.severity = v ] :
        v \in { Str(<< "c","r","i","t","i","c","a","l" >>), Str(S_high),
                Str(<< "i","n","f","o" >>), Str(<< "b","o","g","u","s" >>) } }

SeqsUpTo(S, n) == UNION { [ 1..k -> S ] : k \in 0..n }

\* what a producer that tallies its findings by severity writes as counts
Tally(fs, sev) ==
    Num(Cardinality({ i \in DOMAIN fs :
                        fs[i].severity.t = "str" /\ toUpperCase(fs[i].severity.s) = sev }))
TallyCounts(fs) ==
    [ t |-> "obj", critical |-> Tally(fs, S_CRITICAL), high |-> Tally(fs, S_HIGH),
      medium |-> Tally(fs, S_MEDIUM), low |-> Tally(fs, S_LOW),
      info |-> Tally(fs, S_INFO) ]
NoCounts ==
    [ t |-> "undef", critical |-> Undefined, high |-> Undefined,
      medium |-> Undefined, low |-> Undefined, info |-> Undefined ]

FullSystemInfo ==
    [ t |-> "obj", platform |-> Str(<< "l","i","n","u","x" >>),
      display |-> Str(<< "L","i","n","u","x" >>), pyver |-> Str(<< "3",".","9" >>),
      username |-> Str(<< "b","o","b" >>), isAdmin |-> Bool(TRUE),
      ips |-> Arr(<< << "1","0",".","0",".","0",".","1" >> >>) ]
PartialSystemInfo ==
    [ FullSystemInfo EXCEPT !.display = Undefined, !.isAdmin = Undefined,
                            !.ips = NoArr ]
NoSystemInfo ==
    [ t |-> "undef", platform |-> Undefined, display |-> Undefined,
      pyver |-> Undefined, username |-> Undefined, isAdmin |-> Undefined,
      ips |-> NoArr ]

BaseResult ==
    [ scanId    |-> Str(<< "s","c","a","n","-","1" >>),
      timestamp |-> Str(<< "T","0" >>),
      duration  |-> Num(3),
      score     |-> Num(7500),
      level     |-> Str(S_high),
      findings  |-> Arr(<< BaseFinding >>),
      sys       |-> FullSystemInfo,
      counts    |-> TallyCounts(<< BaseFinding >>) ]

\* results whose finding list varies
ResultsByFindings ==
    { [ BaseResult EXCEPT !.findings = Arr(fs), !.counts = c ] :
        fs \in SeqsUpTo(SeverityFindings, MaxFindings) \cup { << f >> : f \in FindingInputs },
        c \in { NoCounts } } 
    \cup
    { [ BaseResult EXCEPT !.findings = Arr(fs), !.counts = TallyCounts(fs) ] :
        fs \in SeqsUpTo(SeverityFindings, MaxFindings) \cup { << f >> : f \in FindingInputs } }

\* results whose top-level fields vary
ResultsByFields ==
    { [ BaseResult EXCEPT !.scanId = a, !.timestamp = b, !.duration = c,
                          !.score = c2, !.level = d, !.sys = e ] :
        a \in { Undefined, Str(<< "s","c","a","n","-","1" >>) },
        b \in { Undefined, Str(<< "T","0" >>) },
        c \in { Undefined, Num(3) },
        c2 \in { Undefined, Num(7500) },
        d \in RiskLevelInputs,
        e \in { NoSystemInfo, PartialSystemInfo, FullSystemInfo } }
    \cup { [ BaseResult EXCEPT !.findings = NoArr, !.counts = NoCounts ],
           [ BaseResult EXCEPT !.findings = [ t |-> "obj", a |-> << >> ] ] }

ResultInputs == ResultsByFindings \cup ResultsByFields

Conventions == { "snake", "camel" }
ClockReadings == { 0, 1 }

-----------------------------------------------------------------------------
(* Risk engine.  Scores are in thousandths: 9.5 is 9500, 1.2 is 12/10.     *)
(* A finding here is [cvss_score, is_publicly_exposed, requires_no_auth].  *)

Min(a, b) == IF a <= b THEN a ELSE b
Max(a, b) == IF a >= b THEN a ELSE b

\* `return min(base_score, 10.0)`
ScoreCap == 10000

\* a scoring that forgets the final `min(base_score, 10.0)`
calculate_risk_uncapped(finding) ==
    LET base0 == finding.cvss_score
        base1 == IF finding.is_publicly_exposed THEN (base0 * 12) \div 10 ELSE base0
    IN  IF finding.requires_no_auth THEN (base1 * 11) \div 10 ELSE base1

\* calculate_risk(finding), the scoring algorithm of the implementation plan
calculate_risk(finding) ==
    LET base0 == finding.cvss_score
        base1 == IF finding.is_publicly_exposed THEN (base0 * 12) \div 10 ELSE base0
        base2 == IF finding.requires_no_auth THEN (base1 * 11) \div 10 ELSE base1
    IN  Min(base2, ScoreCap)

\* overall score of a scan: 0.0 for no findings, otherwise the largest
\* per-finding score
RECURSIVE MaxScore(_)
MaxScore(fs) ==
    IF Len(fs) = 1 THEN calculate_risk(fs[1])
    ELSE Max(calculate_risk(Head(fs)), MaxScore(Tail(fs)))
overall_risk_score(fs) ==
    IF fs = << >> THEN 0 ELSE MaxScore(fs)

\* bands whose lower bounds are exclusive
risk_level_exclusive(score) ==
    IF score > 9000 THEN S_CRITICAL
    ELSE IF score > 7000 THEN S_HIGH
    ELSE IF score > 4000 THEN S_MEDIUM
    ELSE IF score > 0 THEN S_LOW
    ELSE S_SAFE

\* the threshold bands: >= 9.0 CRITICAL, >= 7.0 HIGH, >= 4.0 MEDIUM,
\* > 0.0 LOW, otherwise SAFE
risk_level(score) ==
    IF score >= 9000 THEN S_CRITICAL
    ELSE IF score >= 7000 THEN S_HIGH
    ELSE IF score >= 4000 THEN S_MEDIUM
    ELSE IF score > 0 THEN S_LOW
    ELSE S_SAFE

CvssInputs == { -1000, 0, 100, 3900, 4000, 7000, 8000, 8900, 9500, 11000 }
RiskFindings ==
    [ cvss_score : CvssInputs, is_publicly_exposed : BOOLEAN,
      requires_no_auth : BOOLEAN ]

-----------------------------------------------------------------------------
(* scanStore.ts: the store as a record, each action a function on it.      *)

NullResult == [ null |-> TRUE, v |-> << >> ]
SomeResult(r) == [ null |-> FALSE, v |-> r ]
NoError  == [ null |-> TRUE ]
AnError  == [ null |-> FALSE ]

S_ALL == << "A","L","L" >>

\* DEFAULT_MODULES: the seven scanner modules, all enabled
ModuleIds ==
    << S_port, S_credential, S_config, S_process, S_permission, S_network,
       S_clawdbot >>
DEFAULT_MODULES ==
    [ i \in DOMAIN ModuleIds |-> [ id |-> ModuleIds[i], enabled |-> TRUE ] ]

getInitialState ==
    [ status |-> "idle", scanResult |-> NullResult, findings |-> << >>,
      progress |-> << >>, error |-> NoError, modules |-> DEFAULT_MODULES,
      expandedFindings |-> { }, filterSeverity |-> S_ALL ]

setStatus(st, s) == [ st EXCEPT !.status = s ]

setScanResult(st, result) ==
    [ st EXCEPT !.scanResult = SomeResult(result),
                !.findings = result.findings,
                !.status = "complete",
                !.progress = << >> ]

\* setProgress without the findIndex branch: every update is appended
setProgress_always_append(st, progressUpdate) ==
    [ st EXCEPT !.progress = Append(@, progressUpdate) ]

setProgress(st, progressUpdate) ==
    LET hits == { i \in DOMAIN st.progress :
                    st.progress[i].module = progressUpdate.module }
    IN  IF hits # { }
        THEN LET existingIndex == CHOOSE i \in hits : \A j \in hits : i <= j
             IN  [ st EXCEPT !.progress[existingIndex] = progressUpdate ]
        ELSE [ st EXCEPT !.progress = Append(@, progressUpdate) ]

setError(st, e) ==
    [ st EXCEPT !.error = e,
                !.status = IF ~e.null THEN "error" ELSE st.status ]

reset(st) == getInitialState

toggleFinding(st, findingId) ==
    [ st EXCEPT !.expandedFindings =
        IF findingId \in @ THEN @ \ { findingId } ELSE @ \cup { findingId } ]

setFilterSeverity(st, severity) == [ st EXCEPT !.filterSeverity = severity ]

toggleModule(st, moduleId) ==
    [ st EXCEPT !.modules =
        [ i \in DOMAIN st.modules |->
            IF st.modules[i].id = moduleId
            THEN [ st.modules[i] EXCEPT !.enabled = ~@ ]
            ELSE st.modules[i] ] ]

\* get().modules.filter(m => m.enabled).map(m => m.id)
getEnabledModules(st) ==
    LET enabled(m) == m.enabled
        ms == SelectSeq(st.modules, enabled)
    IN  [ i \in DOMAIN ms |-> ms[i].id ]

\* App renders ProgressIndicator while scanning and ScanControls otherwise;
\* each of the two calls useScanner()
Components == { "ScanControls", "ProgressIndicator" }
Rendered(s) == IF s = "scanning" THEN "ProgressIndicator" ELSE "ScanControls"

\* ipcRenderer's listeners: how many handlers each component's hook instance
\* has on each channel
Channels == { "scanner:progress", "scanner:result" }
NoListeners == [ ch \in Channels |-> [ c \in Components |-> 0 ] ]
on(ls, channel, c) == [ ls EXCEPT ![channel][c] = @ + 1 ]
removeListener(ls, channel, c) ==
    [ ls EXCEPT ![channel][c] = IF @ > 0 THEN @ - 1 ELSE 0 ]
LiveListeners(ls, channel) ==
    ls[channel]["ScanControls"] + ls[channel]["ProgressIndicator"]

\* the listener effect of useScanner: nothing without window.scanner,
\* otherwise onProgress and onResult register one handler each
EffectSetup(ls, c) ==
    IF mode # "electron" THEN ls
    ELSE on(on(ls, "scanner:progress", c), "scanner:result", c)

\* the effect's cleanup, cleanups.forEach(cleanup => cleanup())
EffectCleanup_progress_only(ls, c) ==
    IF mode # "electron" THEN ls
    ELSE removeListener(ls, "scanner:progress", c)

EffectCleanup(ls, c) ==
    IF mode # "electron" THEN ls
    ELSE removeListener(removeListener(ls, "scanner:progress", c),
                        "scanner:result", c)

\* the state after App's first render: ScanControls and its hook's effect
FirstRender ==
    /\ mounted = { Rendered("idle") }
    /\ listeners = EffectSetup(NoListeners, Rendered("idle"))
    /\ viewMode = "user"

\* React commits the render that follows a store update before the next
\* event is handled: when the status change swaps the component App shows,
\* the old component's effect cleanup runs and the new one's effect runs
Commit(old, new) ==
    IF Rendered(old) = Rendered(new)
    THEN UNCHANGED << mounted, listeners >>
    ELSE /\ mounted' = (mounted \ { Rendered(old) }) \cup { Rendered(new) }
         /\ listeners' = EffectSetup(EffectCleanup(listeners, Rendered(old)),
                                     Rendered(new))

Store == [ status |-> status, scanResult |-> scanResult, findings |-> findings,
           progress |-> progress, error |-> error, modules |-> modules,
           expandedFindings |-> expandedFindings,
           filterSeverity |-> filterSeverity ]
StoreIs(st) ==
    /\ status = st.status
    /\ scanResult = st.scanResult
    /\ findings = st.findings
    /\ progress = st.progress
    /\ error = st.error
    /\ modules = st.modules
    /\ expandedFindings = st.expandedFindings
    /\ filterSeverity = st.filterSeverity
StoreBecomes(st) ==
    /\ status' = st.status
    /\ scanResult' = st.scanResult
    /\ findings' = st.findings
    /\ progress' = st.progress
    /\ error' = st.error
    /\ modules' = st.modules
    /\ expandedFindings' = st.expandedFindings
    /\ filterSeverity' = st.filterSeverity
    /\ Commit(status, st.status)

-----------------------------------------------------------------------------
(* getDemoResult(): the fixed result of the demo path, already in canonical *)
(* form (it does not pass through normalizeScanResult).                     *)

PRIORITY_FINDING_ID ==
    << "C","L","A","W","D","-","I","N","S","T","A","L","L","-","0","0",
       "1" >>

DemoFinding1 ==
    [ id          |-> Str(PRIORITY_FINDING_ID),
      title       |-> Str(
        << "M","o","l","t","b","o","t","/","C","l","a","w","d","b","o","t",
           " ","N","o","t"," ","I","n","s","t","a","l","l","e","d"," ","o",
           "r"," ","N","o","t"," ","C","o","n","f","i","g","u","r","e",
           "d" >>),
      description |-> Str(
        << "N","o"," ","M","o","l","t","b","o","t"," ","o","r"," ","C","l",
           "a","w","d","b","o","t"," ","c","o","n","f","i","g","u","r","a",
           "t","i","o","n"," ","f","i","l","e","s"," ","w","e","r","e"," ",
           "f","o","u","n","d"," ","o","n"," ","y","o","u","r"," ","s","y",
           "s","t","e","m","."," ","T","h","i","s"," ","l","i","k","e","l",
           "y"," ","m","e","a","n","s"," ","M","o","l","t","b","o","t","/",
           "C","l","a","w","d","b","o","t"," ","i","s"," ","n","o","t"," ",
           "i","n","s","t","a","l","l","e","d"," ","o","r"," ","h","a","s",
           " ","n","o","t"," ","b","e","e","n"," ","c","o","n","f","i","g",
           "u","r","e","d"," ","y","e","t","."," ","I","f"," ","y","o","u",
           " ","i","n","t","e","n","d","e","d"," ","t","o"," ","s","c","a",
           "n"," ","M","o","l","t","b","o","t","/","C","l","a","w","d","b",
           "o","t"," ","s","e","c","u","r","i","t","y",","," ","y","o","u",
           " ","w","i","l","l"," ","n","e","e","d"," ","t","o"," ","i","n",
           "s","t","a","l","l"," ","i","t"," ","f","i","r","s","t","." >>),
      severity    |-> S_INFO,
      category    |-> S_CONFIGURATION,
      cvssScore   |-> Num(0),
      location    |-> Str(
        << "S","y","s","t","e","m"," ","c","o","n","f","i","g","u","r","a",
           "t","i","o","n" >>),
      remediation |-> Str(
        << "I","n","s","t","a","l","l"," ","M","o","l","t","b","o","t"," ",
           "t","o"," ","u","s","e"," ","t","h","e"," ","f","u","l","l"," ",
           "s","e","c","u","r","i","t","y"," ","s","c","a","n","n","i","n",
           "g"," ","c","a","p","a","b","i","l","i","t","i","e","s","." >>),
      remediationSteps |-> <<
          [ step |-> Num(1),
            instruction |-> Str(
              << "I","n","s","t","a","l","l"," ","N","o","d","e",".","j",
                 "s"," ","(","v","e","r","s","i","o","n"," ","2","2"," ",
                 "o","r"," ","h","i","g","h","e","r",")"," ","f","r","o",
                 "m"," ","h","t","t","p","s",":","/","/","n","o","d","e",
                 "j","s",".","o","r","g","/" >>),
            code |-> Undefined,
            filePath |-> Undefined ],
          [ step |-> Num(2),
            instruction |-> Str(
              << "I","n","s","t","a","l","l"," ","M","o","l","t","b","o",
                 "t"," ","g","l","o","b","a","l","l","y" >>),
            code |-> Str(
              << "n","p","m"," ","i","n","s","t","a","l","l"," ","-","g",
                 " ","m","o","l","t","b","o","t","@","l","a","t","e","s",
                 "t" >>),
            filePath |-> Undefined ],
          [ step |-> Num(3),
            instruction |-> Str(
              << "R","u","n"," ","t","h","e"," ","o","n","b","o","a","r",
                 "d","i","n","g"," ","w","i","z","a","r","d" >>),
            code |-> Str(
              << "m","o","l","t","b","o","t"," ","o","n","b","o","a","r",
                 "d"," ","-","-","i","n","s","t","a","l","l","-","d","a",
                 "e","m","o","n" >>),
            filePath |-> Undefined ],
          [ step |-> Num(4),
            instruction |-> Str(
              << "S","t","a","r","t"," ","t","h","e"," ","g","a","t","e",
                 "w","a","y" >>),
            code |-> Str(
              << "m","o","l","t","b","o","t"," ","g","a","t","e","w","a",
                 "y"," ","-","-","p","o","r","t"," ","1","8","7","8","9" >>),
            filePath |-> Undefined ],
          [ step |-> Num(5),
            instruction |-> Str(
              << "R","u","n"," ","t","h","i","s"," ","s","c","a","n","n",
                 "e","r"," ","a","g","a","i","n"," ","t","o"," ","c","h",
                 "e","c","k"," ","y","o","u","r"," ","M","o","l","t","b",
                 "o","t"," ","s","e","c","u","r","i","t","y"," ","c","o",
                 "n","f","i","g","u","r","a","t","i","o","n" >>),
            code |-> Undefined,
            filePath |-> Undefined ] >>,
      references  |-> Arr(<<
        << "h","t","t","p","s",":","/","/","d","o","c","s",".","m","o","l",
           "t",".","b","o","t","/","s","t","a","r","t","/","g","e","t","t",
           "i","n","g","-","s","t","a","r","t","e","d" >>,
        << "h","t","t","p","s",":","/","/","d","o","c","s",".","m","o","l",
           "t",".","b","o","t","/","i","n","s","t","a","l","l" >>,
        << "h","t","t","p","s",":","/","/","g","i","t","h","u","b",".","c",
           "o","m","/","m","o","l","t","b","o","t","/","m","o","l","t","b",
           "o","t" >> >>) ]

DemoFinding2 ==
    [ id          |-> Str(<< "d","e","m","o","-","1" >>),
      title       |-> Str(
        << "C","l","a","w","d","b","o","t"," ","G","a","t","e","w","a","y",
           " ","E","x","p","o","s","e","d"," ","t","o"," ","N","e","t","w",
           "o","r","k" >>),
      description |-> Str(
        << "Y","o","u","r"," ","C","l","a","w","d","b","o","t"," ","g","a",
           "t","e","w","a","y"," ","(","p","o","r","t"," ","1","8","7","8",
           "9",")"," ","i","s"," ","a","c","c","e","s","s","i","b","l","e",
           " ","f","r","o","m"," ","t","h","e"," ","i","n","t","e","r","n",
           "e","t","."," ","A","n","y","o","n","e"," ","c","a","n"," ","c",
           "o","n","n","e","c","t"," ","t","o"," ","y","o","u","r"," ","c",
           "o","m","p","u","t","e","r","!" >>),
      severity    |-> S_CRITICAL,
      category    |-> S_PORT_EXPOSURE,
      cvssScore   |-> Num(9500),
      location    |-> Str(
        << "P","o","r","t"," ","1","8","7","8","9"," ","b","o","u","n","d",
           " ","t","o"," ","0",".","0",".","0",".","0" >>),
      remediation |-> Str(
        << "C","o","n","f","i","g","u","r","e"," ","a","u","t","h","e","n",
           "t","i","c","a","t","i","o","n"," ","o","r"," ","b","i","n","d",
           " ","t","o"," ","1","2","7",".","0",".","0",".","1" >>),
      remediationSteps |-> <<
          [ step |-> Num(1),
            instruction |-> Str(
              << "O","p","e","n"," ","y","o","u","r"," ","C","l","a","w",
                 "d","b","o","t"," ","c","o","n","f","i","g","u","r","a",
                 "t","i","o","n"," ","f","i","l","e" >>),
            code |-> Undefined,
            filePath |-> Undefined ],
          [ step |-> Num(2),
            instruction |-> Str(
              << "F","i","n","d"," ","t","h","e"," ","\"","b","i","n","d",
                 "\""," ","s","e","t","t","i","n","g" >>),
            code |-> Undefined,
            filePath |-> Undefined ],
          [ step |-> Num(3),
            instruction |-> Str(
              << "C","h","a","n","g","e"," ","\"","0",".","0",".","0",".",
                 "0","\""," ","t","o"," ","\"","1","2","7",".","0",".","0",
                 ".","1","\"" >>),
            code |-> Str(
              << "\"","b","i","n","d","\"",":"," ","\"","1","2","7",".","0",
                 ".","0",".","1","\"" >>),
            filePath |-> Undefined ],
          [ step |-> Num(4),
            instruction |-> Str(
              << "S","a","v","e"," ","a","n","d"," ","r","e","s","t","a",
                 "r","t"," ","M","o","l","t","b","o","t","/","C","l","a",
                 "w","d","b","o","t" >>),
            code |-> Undefined,
            filePath |-> Undefined ] >>,
      references  |-> Arr(<<
        << "h","t","t","p","s",":","/","/","d","o","c","s",".","c","l","a",
           "w","d","b","o","t",".","e","x","a","m","p","l","e","/","s","e",
           "c","u","r","i","t","y" >> >>) ]

DemoFinding3 ==
    [ id          |-> Str(<< "d","e","m","o","-","2" >>),
      title       |-> Str(
        << "A","P","I"," ","K","e","y","s"," ","F","o","u","n","d"," ","i",
           "n"," ","P","l","a","i","n"," ","T","e","x","t" >>),
      description |-> Str(
        << "Y","o","u","r"," ","O","p","e","n","A","I"," ","k","e","y"," ",
           "i","s"," ","v","i","s","i","b","l","e"," ","i","n"," ","c","o",
           "n","f","i","g","u","r","a","t","i","o","n"," ","f","i","l","e",
           "s"," ","a","c","c","e","s","s","i","b","l","e"," ","t","o"," ",
           "a","n","y"," ","p","r","o","g","r","a","m","." >>),
      severity    |-> S_HIGH,
      category    |-> S_CREDENTIALS,
      cvssScore   |-> Num(8500),
      location    |-> Str(
        << "~","/",".","m","o","l","t","b","o","t","/","m","o","l","t","b",
           "o","t",".","j","s","o","n" >>),
      remediation |-> Str(
        << "M","o","v","e"," ","A","P","I"," ","k","e","y","s"," ","t","o",
           " ","e","n","v","i","r","o","n","m","e","n","t"," ","v","a","r",
           "i","a","b","l","e","s" >>),
      remediationSteps |-> <<
          [ step |-> Num(1),
            instruction |-> Str(
              << "C","r","e","a","t","e"," ","a"," ",".","e","n","v"," ",
                 "f","i","l","e"," ","i","n"," ","y","o","u","r"," ","h",
                 "o","m","e"," ","d","i","r","e","c","t","o","r","y" >>),
            code |-> Undefined,
            filePath |-> Undefined ],
          [ step |-> Num(2),
            instruction |-> Str(
              << "M","o","v","e"," ","t","h","e"," ","A","P","I"," ","k",
                 "e","y"," ","t","o"," ","e","n","v","i","r","o","n","m",
                 "e","n","t"," ","v","a","r","i","a","b","l","e" >>),
            code |-> Str(
              << "O","P","E","N","A","I","_","A","P","I","_","K","E","Y",
                 "=","s","k","-",".",".","." >>),
            filePath |-> Undefined ],
          [ step |-> Num(3),
            instruction |-> Str(
              << "U","p","d","a","t","e"," ","c","o","n","f","i","g"," ",
                 "t","o"," ","r","e","f","e","r","e","n","c","e"," ","e",
                 "n","v","i","r","o","n","m","e","n","t"," ","v","a","r",
                 "i","a","b","l","e" >>),
            code |-> Undefined,
            filePath |-> Undefined ] >>,
      references  |-> Arr(<<
        << "h","t","t","p","s",":","/","/","p","l","a","t","f","o","r","m",
           ".","o","p","e","n","a","i",".","c","o","m","/","d","o","c","s",
           "/","a","p","i","-","r","e","f","e","r","e","n","c","e" >> >>) ]

DemoFinding4 ==
    [ id          |-> Str(<< "d","e","m","o","-","3" >>),
      title       |-> Str(
        << "A","u","t","h","e","n","t","i","c","a","t","i","o","n"," ","B",
           "y","p","a","s","s"," ","V","u","l","n","e","r","a","b","i","l",
           "i","t","y" >>),
      description |-> Str(
        << "T","h","e"," ","g","a","t","e","w","a","y"," ","c","a","n"," ",
           "b","e"," ","a","c","c","e","s","s","e","d"," ","w","i","t","h",
           "o","u","t"," ","a","u","t","h","e","n","t","i","c","a","t","i",
           "o","n"," ","f","r","o","m"," ","l","o","c","a","l","h","o","s",
           "t","." >>),
      severity    |-> S_HIGH,
      category    |-> S_AUTHENTICATION,
      cvssScore   |-> Num(8000),
      location    |-> Str(
        << "M","o","l","t","b","o","t","/","C","l","a","w","d","b","o","t",
           " ","G","a","t","e","w","a","y" >>),
      remediation |-> Str(
        << "E","n","a","b","l","e"," ","a","u","t","h","e","n","t","i","c",
           "a","t","i","o","n"," ","i","n"," ","M","o","l","t","b","o","t",
           "/","C","l","a","w","d","b","o","t"," ","c","o","n","f","i","g",
           "u","r","a","t","i","o","n" >>),
      remediationSteps |-> <<
          [ step |-> Num(1),
            instruction |-> Str(
              << "O","p","e","n"," ","y","o","u","r"," ","M","o","l","t",
                 "b","o","t","/","C","l","a","w","d","b","o","t"," ","s",
                 "e","t","t","i","n","g","s" >>),
            code |-> Undefined,
            filePath |-> Undefined ],
          [ step |-> Num(2),
            instruction |-> Str(
              << "E","n","a","b","l","e"," ","\"","R","e","q","u","i","r",
                 "e"," ","A","u","t","h","e","n","t","i","c","a","t","i",
                 "o","n","\"" >>),
            code |-> Undefined,
            filePath |-> Undefined ],
          [ step |-> Num(3),
            instruction |-> Str(
              << "S","e","t"," ","a"," ","s","t","r","o","n","g"," ","p",
                 "a","s","s","w","o","r","d" >>),
            code |-> Undefined,
            filePath |-> Undefined ] >>,
      references  |-> NoArr ]

DemoFinding5 ==
    [ id          |-> Str(<< "d","e","m","o","-","4" >>),
      title       |-> Str(
        << "C","o","n","f","i","g"," ","F","i","l","e"," ","W","o","r","l",
           "d","-","R","e","a","d","a","b","l","e" >>),
      description |-> Str(
        << "C","o","n","f","i","g","u","r","a","t","i","o","n"," ","f","i",
           "l","e","s"," ","h","a","v","e"," ","o","v","e","r","l","y"," ",
           "p","e","r","m","i","s","s","i","v","e"," ","p","e","r","m","i",
           "s","s","i","o","n","s"," ","(","6","4","4",")","." >>),
      severity    |-> S_MEDIUM,
      category    |-> S_PERMISSIONS,
      cvssScore   |-> Num(5500),
      location    |-> Str(
        << "~","/",".","m","o","l","t","b","o","t","/","m","o","l","t","b",
           "o","t",".","j","s","o","n" >>),
      remediation |-> Str(
        << "R","e","s","t","r","i","c","t"," ","f","i","l","e"," ","p","e",
           "r","m","i","s","s","i","o","n","s"," ","t","o"," ","o","w","n",
           "e","r"," ","o","n","l","y" >>),
      remediationSteps |-> <<
          [ step |-> Num(1),
            instruction |-> Str(
              << "R","u","n"," ","c","h","m","o","d"," ","6","0","0"," ",
                 "o","n"," ","c","o","n","f","i","g"," ","f","i","l","e",
                 "s" >>),
            code |-> Str(
              << "c","h","m","o","d"," ","6","0","0"," ","~","/",".","m",
                 "o","l","t","b","o","t","/","m","o","l","t","b","o","t",
                 ".","j","s","o","n" >>),
            filePath |-> Undefined ] >>,
      references  |-> NoArr ]

DemoFinding6 ==
    [ id          |-> Str(<< "d","e","m","o","-","5" >>),
      title       |-> Str(
        << "B","a","c","k","u","p"," ","F","i","l","e","s"," ","P","r","e",
           "s","e","n","t" >>),
      description |-> Str(
        << "O","l","d"," ","b","a","c","k","u","p"," ","f","i","l","e","s",
           " ","f","o","u","n","d"," ","t","h","a","t"," ","m","a","y"," ",
           "c","o","n","t","a","i","n"," ","s","e","n","s","i","t","i","v",
           "e"," ","d","a","t","a","." >>),
      severity    |-> S_LOW,
      category    |-> S_CONFIGURATION,
      cvssScore   |-> Num(3000),
      location    |-> Str(
        << "~","/",".","m","o","l","t","b","o","t","/","m","o","l","t","b",
           "o","t",".","j","s","o","n",".","b","a","k" >>),
      remediation |-> Str(
        << "R","e","m","o","v","e"," ","u","n","n","e","c","e","s","s","a",
           "r","y"," ","b","a","c","k","u","p"," ","f","i","l","e","s" >>),
      remediationSteps |-> <<
          [ step |-> Num(1),
            instruction |-> Str(
              << "D","e","l","e","t","e"," ","b","a","c","k","u","p"," ",
                 "f","i","l","e","s"," ","s","e","c","u","r","e","l","y" >>),
            code |-> Undefined,
            filePath |-> Undefined ] >>,
      references  |-> NoArr ]

DemoFinding7 ==
    [ id          |-> Str(<< "d","e","m","o","-","6" >>),
      title       |-> Str(
        << "M","o","l","t","b","o","t","/","C","l","a","w","d","b","o","t",
           " ","R","u","n","n","i","n","g" >>),
      description |-> Str(
        << "M","o","l","t","b","o","t","/","C","l","a","w","d","b","o","t",
           " ","p","r","o","c","e","s","s"," ","i","s"," ","c","u","r","r",
           "e","n","t","l","y"," ","r","u","n","n","i","n","g"," ","o","n",
           " ","t","h","i","s"," ","s","y","s","t","e","m","." >>),
      severity    |-> S_INFO,
      category    |-> S_CONFIGURATION,
      cvssScore   |-> Num(0),
      location    |-> Str(
        << "P","r","o","c","e","s","s"," ","I","D",":"," ","1","2","3","4",
           "5" >>),
      remediation |-> Str(
        << "N","o"," ","a","c","t","i","o","n"," ","r","e","q","u","i","r",
           "e","d"," ","-"," ","i","n","f","o","r","m","a","t","i","o","n",
           "a","l"," ","o","n","l","y" >>),
      remediationSteps |-> << >>,
      references  |-> NoArr ]

getDemoResult(now) ==
    [ scanId           |-> Str(<< "d","e","m","o","-","0","0","1" >>),
      timestamp        |-> Str(toISOString(now)),
      durationSeconds  |-> Num(2500),
      overallRiskScore |-> Num(7500),
      riskLevel        |-> S_HIGH,
      criticalCount    |-> Num(1),
      highCount        |-> Num(2),
      mediumCount      |-> Num(1),
      lowCount         |-> Num(1),
      infoCount        |-> Num(2),
      systemInfo       |->
        [ platform        |-> Str(<< "d","e","m","o" >>),
          platformDisplay |-> Str(<< "D","E","M","O"," ","M","O","D","E"," ","-"," ","N","o","t"," ",
                                    "R","e","a","l"," ","D","a","t","a" >>),
          pythonVersion   |-> Str(<< "3",".","1","1",".","0" >>),
          username        |-> Str(<< "d","e","m","o","_","u","s","e","r" >>),
          isAdmin         |-> Bool(FALSE),
          localIps        |-> Arr(<< << "1","9","2",".","1","6","8",".","1",".",
                                         "1","0","0" >> >>) ],
      findings         |-> << DemoFinding1, DemoFinding2, DemoFinding3, DemoFinding4,
                              DemoFinding5, DemoFinding6, DemoFinding7 >> ]

-----------------------------------------------------------------------------
(* The scanner subprocess and the main process (main.cjs).                 *)
(*                                                                         *)
(* proc[p] is the ChildProcess of the p-th start request:                  *)
(*   st      "none" | "running" | "exited" (the OS process is gone, its    *)
(*           'close' event not yet handled) | "closed"                     *)
(*   sig     SIGTERM has been sent and not yet taken effect                *)
(*   code    exit code; -1 is `null` (killed by the signal)                *)
(*   json    which BackendOutputs element stdout holds; 0 is none          *)
(*   chunks  "Running <module>..." chunks printed so far                   *)
(*   modules the validated module list it was spawned with                 *)
(*   settled the promise of the start request has been settled             *)

\* what the scanner may print as its JSON result
S_medium == << "m","e","d","i","u","m" >>
MediumFinding == [ BaseFinding EXCEPT !.severity = Str(S_medium), !.cvss = Num(5000) ]

BackendOutputs ==
    << EncodeResult("snake", BaseResult),
       EncodeResult("snake", [ BaseResult EXCEPT !.counts = NoCounts ]),
       EncodeResult("snake",
         [ BaseResult EXCEPT !.findings =
             Arr(<< [ BaseFinding EXCEPT !.severity = Num(5) ] >>) ]),
       EncodeResult("snake",
         [ BaseResult EXCEPT !.timestamp = Undefined, !.findings = Arr(<< >>),
                             !.counts = TallyCounts(<< >>) ]),
       EncodeResult("snake",
         [ BaseResult EXCEPT !.level = Str(S_medium), !.score = Num(5000),
                             !.findings = Arr(<< MediumFinding >>),
                             !.counts = TallyCounts(<< MediumFinding >>) ]) >>

ExitCodes == { 0, 1, 2, 3 }

NoProc ==
    [ st |-> "none", sig |-> FALSE, code |-> 0, json |-> 0, chunks |-> 0,
      modules |-> << >>, settled |-> FALSE ]

Alive(p) == proc[p].st = "running"

Msg(type, scan, raw, module) ==
    [ type |-> type, scan |-> scan, raw |-> raw, module |-> module ]
Req(type, scan, ms) ==
    [ type |-> type, scan |-> scan, modules |-> ms ]

StringList(ms) ==
    [ isArray |-> TRUE,
      items |-> [ i \in DOMAIN ms |-> [ isString |-> TRUE, s |-> ms[i] ] ] ]

\* ipcMain.handle('scanner:start'): validate, find Python, spawn.
\* Nothing here looks at pythonProcess before overwriting it.
ScannerStartHandler ==
    /\ toMain # << >>
    /\ Head(toMain).type = "start"
    /\ LET req == Head(toMain)
           validatedModules == validateModules(req.modules)
       IN  /\ toMain' = Tail(toMain)
           /\ IF ~validatedModules.ok
              THEN /\ toRenderer' = Append(toRenderer,
                                      Msg("startRejected", req.scan, 0, << >>))
                   /\ UNCHANGED << pythonProcess, pythonCommand, proc >>
              ELSE \E cmd \in (IF pythonCommand = "unchecked"
                               THEN { "found", "null" } ELSE { pythonCommand }) :
                     /\ pythonCommand' = cmd
                     /\ IF cmd = "null"
                        THEN /\ toRenderer' = Append(toRenderer,
                                      Msg("startRejected", req.scan, 0, << >>))
                             /\ UNCHANGED << pythonProcess, proc >>
                        ELSE /\ pythonProcess' = req.scan
                             /\ proc' = [ proc EXCEPT ![req.scan] =
                                  [ NoProc EXCEPT !.st = "running",
                                                  !.modules = validatedModules.v ] ]
                             /\ UNCHANGED toRenderer

\* pythonProcess.stdout.on('data'): a chunk "Running <module>..." becomes a
\* scanner:progress event
StdoutData(p) ==
    /\ Alive(p)
    /\ proc[p].chunks < MaxChunks
    /\ proc[p].chunks < Len(proc[p].modules)
    /\ proc' = [ proc EXCEPT ![p].chunks = @ + 1 ]
    /\ toRenderer' = Append(toRenderer,
         Msg("progress", p, 0, proc[p].modules[proc[p].chunks + 1]))
    /\ UNCHANGED << pythonProcess, pythonCommand, toMain >>

\* the scanner process ends by itself, with an exit code and its stdout
ProcessExits(p) ==
    /\ Alive(p)
    /\ ~proc[p].sig
    /\ \E code \in ExitCodes, json \in 0..Len(BackendOutputs) :
         proc' = [ proc EXCEPT ![p].st = "exited", ![p].code = code,
                               ![p].json = json ]
    /\ UNCHANGED << pythonProcess, pythonCommand, toMain, toRenderer >>

\* SIGTERM takes effect: the process dies, exit code null
ProcessKilled(p) ==
    /\ Alive(p)
    /\ proc[p].sig
    /\ proc' = [ proc EXCEPT ![p].st = "exited", ![p].sig = FALSE,
                             ![p].code = -1, ![p].json = 0 ]
    /\ UNCHANGED << pythonProcess, pythonCommand, toMain, toRenderer >>

\* what settling the start request's promise puts on the channel: nothing
\* when it was settled before
Settle(p, type) ==
    IF proc[p].settled THEN << >> ELSE << Msg(type, p, 0, << >>) >>

\* pythonProcess.on('error'): the process could not be started.  Node may or
\* may not emit 'close' afterwards.
OnError(p) ==
    /\ Alive(p)
    /\ proc[p].chunks = 0
    /\ ~proc[p].sig
    /\ pythonProcess' = 0
    /\ toRenderer' = toRenderer \o Settle(p, "startRejected")
    /\ \E st \in { "exited", "closed" } :
         proc' = [ proc EXCEPT ![p] =
                     [ NoProc EXCEPT !.st = st, !.code = -1, !.settled = TRUE ] ]
    /\ UNCHANGED << pythonCommand, toMain >>

\* pythonProcess.on('close', code => ...)
OnClose(p) ==
    /\ proc[p].st = "exited"
    /\ IF proc[p].code \in { 0, 1, 2 } /\ proc[p].json # 0
       THEN toRenderer' = toRenderer \o
              << Msg("result", p, proc[p].json, << >>) >> \o
              Settle(p, "startResolved")
       ELSE toRenderer' = toRenderer \o Settle(p, "startRejected")
    /\ pythonProcess' = 0
    /\ proc' = [ proc EXCEPT ![p] = [ NoProc EXCEPT !.st = "closed",
                                                    !.code = proc[p].code ] ]
    /\ UNCHANGED << pythonCommand, toMain >>

\* ipcMain.handle('scanner:cancel')
ScannerCancelHandler ==
    /\ toMain # << >>
    /\ Head(toMain).type = "cancel"
    /\ toMain' = Tail(toMain)
    /\ toRenderer' = Append(toRenderer, Msg("cancelReply", Head(toMain).scan, 0, << >>))
    /\ IF pythonProcess # 0
       THEN /\ proc' = [ proc EXCEPT ![pythonProcess].sig =
                           (proc[pythonProcess].st = "running") ]
            /\ pythonProcess' = 0
       ELSE UNCHANGED << pythonProcess, proc >>
    /\ UNCHANGED pythonCommand

-----------------------------------------------------------------------------
(* The renderer: the useScanner hook driving the store.                    *)

rendererOnly == << pythonProcess, pythonCommand, proc >>
mainOnly     == << status, scanResult, findings, progress, error, modules,
                   mounted, listeners,
                   expandedFindings, filterSeverity, mode, viewMode,
                   demoTask, nScans, cancelled, resultOf, call >>

NoDemoTask == [ i |-> 0, modules |-> << >> ]

\* percentage of the demo loop, ((i + 1) / n) * 100, in thousandths
Percentage(i, n) == ((i + 1) * 100000) \div n

\* startScan(), reachable from the Quick Scan / Full Scan buttons, which are
\* only there while no scan is running
StartScan ==
    /\ status # "scanning"
    /\ nScans < MaxScans
    /\ nScans' = nScans + 1
    /\ IF mode = "demo"
       THEN LET enabledModules == getEnabledModules(Store)
            IN  IF Len(enabledModules) > 0
                THEN /\ StoreBecomes(setStatus(Store, "scanning"))
                     /\ demoTask' = [ demoTask EXCEPT ![nScans + 1] =
                                       [ i |-> 1, modules |-> enabledModules ] ]
                     /\ UNCHANGED << toMain, resultOf >>
                ELSE \* the loop body never runs and nothing is awaited:
                     \* setScanResult follows setStatus in the same turn
                     \E now \in ClockReadings :
                       /\ StoreBecomes(setScanResult(
                              setStatus(Store, "scanning"), getDemoResult(now)))
                       /\ resultOf' = nScans + 1
                       /\ UNCHANGED << toMain, demoTask >>
       ELSE /\ StoreBecomes(setError(setStatus(Store, "scanning"), NoError))
            /\ toMain' = Append(toMain,
                 Req("start", nScans + 1,
                     StringList(getEnabledModules(Store))))
            /\ UNCHANGED << demoTask, resultOf >>
    /\ UNCHANGED << mode, viewMode, pythonProcess, pythonCommand, proc, toRenderer,
                    cancelled, call >>

\* one 500 ms timer of the demo loop fires: setProgress for module i, and
\* after the last module setScanResult(getDemoResult()) in the same turn.
\* Nothing in the loop looks at the store's status.
DemoTimer(t) ==
    /\ demoTask[t].i \in 1..Len(demoTask[t].modules)
    /\ LET i  == demoTask[t].i
           enabledModules == demoTask[t].modules
           st == setProgress(Store,
                   [ module |-> enabledModules[i], status |-> "complete",
                     percentage |->
                       Num(Percentage(i - 1, Len(enabledModules))) ])
       IN  IF i < Len(enabledModules)
           THEN /\ StoreBecomes(st)
                /\ demoTask' = [ demoTask EXCEPT ![t].i = i + 1 ]
                /\ UNCHANGED resultOf
           ELSE \E now \in ClockReadings :
                  /\ StoreBecomes(setScanResult(st, getDemoResult(now)))
                  /\ demoTask' = [ demoTask EXCEPT ![t] = NoDemoTask ]
                  /\ resultOf' = t
    /\ UNCHANGED << mode, viewMode, rendererOnly, toMain, toRenderer, nScans, cancelled,
                    call >>

\* cancelScan(), reachable from the Cancel button of the progress view.
\* In Electron it first awaits the scanner:cancel reply.
CancelScan ==
    /\ status = "scanning"
    /\ nScans \notin cancelled
    /\ cancelled' = cancelled \cup { nScans }
    /\ IF mode = "demo"
       THEN /\ StoreBecomes(reset(setStatus(Store, "idle")))
            /\ resultOf' = 0
            /\ UNCHANGED toMain
       ELSE /\ toMain' = Append(toMain, Req("cancel", nScans, StringList(<< >>)))
            /\ UNCHANGED << storeVars, resultOf >>
    /\ UNCHANGED << mode, viewMode, demoTask, rendererOnly, toRenderer, nScans, call >>

\* the renderer takes the next event or invoke reply off the channel
\*   progress      -> onProgress listener
\*   result        -> onResult listener (an exception in it leaves the store)
\*   startResolved -> `await window.scanner.startScan` returns
\*   startRejected -> the catch block of startScan
\*   cancelReply   -> the rest of cancelScan
RendererReceives ==
    /\ toRenderer # << >>
    /\ toRenderer' = Tail(toRenderer)
    /\ LET m == Head(toRenderer) IN
       CASE m.type = "progress" ->
              IF LiveListeners(listeners, "scanner:progress") = 0
              THEN UNCHANGED << storeVars, resultOf >>
              ELSE /\ StoreBecomes(setProgress(Store,
                        [ module |-> m.module, status |-> "in_progress",
                          percentage |-> Undefined ]))
                   /\ UNCHANGED resultOf
         [] m.type = "result" ->
              IF \/ LiveListeners(listeners, "scanner:result") = 0
                 \/ normalizeScanResultThrows(BackendOutputs[m.raw])
              THEN UNCHANGED << storeVars, resultOf >>
              ELSE \E now \in ClockReadings :
                     /\ StoreBecomes(setScanResult(Store,
                          normalizeScanResult(BackendOutputs[m.raw], now)))
                     /\ resultOf' = m.scan
         [] m.type = "startResolved" ->
              UNCHANGED << storeVars, resultOf >>
         [] m.type = "startRejected" ->
              /\ StoreBecomes(setError(Store, AnError))
              /\ UNCHANGED resultOf
         [] m.type = "cancelReply" ->
              /\ StoreBecomes(reset(setStatus(Store, "idle")))
              /\ resultOf' = 0
    /\ UNCHANGED << mode, viewMode, demoTask, rendererOnly, toMain, nScans, cancelled,
                    call >>

-----------------------------------------------------------------------------
(* The scan lifecycle: renderer, main process and scanner together.        *)

NoCall == [ fn |-> "none", done |-> FALSE ]

Init ==
    /\ StoreIs(getInitialState)
    /\ mode \in { "electron", "demo" }
    /\ FirstRender
    /\ demoTask = [ t \in 1..MaxScans |-> NoDemoTask ]
    /\ pythonProcess = 0
    /\ pythonCommand = "unchecked"
    /\ proc = [ p \in 1..MaxScans |-> NoProc ]
    /\ toMain = << >>
    /\ toRenderer = << >>
    /\ nScans = 0
    /\ cancelled = { }
    /\ resultOf = 0
    /\ call = NoCall

MainScannerStart   == ScannerStartHandler /\ UNCHANGED mainOnly
MainScannerCancel  == ScannerCancelHandler /\ UNCHANGED mainOnly
ScannerPrints      == \E p \in 1..MaxScans : StdoutData(p) /\ UNCHANGED mainOnly
ScannerExits       == \E p \in 1..MaxScans : ProcessExits(p) /\ UNCHANGED mainOnly
ScannerKilled      == \E p \in 1..MaxScans : ProcessKilled(p) /\ UNCHANGED mainOnly
MainOnClose        == \E p \in 1..MaxScans : OnClose(p) /\ UNCHANGED mainOnly
MainOnError        == \E p \in 1..MaxScans : OnError(p) /\ UNCHANGED mainOnly
DemoTimerFires     == \E t \in 1..MaxScans : DemoTimer(t)

\* the two buttons of ScanControls; both handlers call startScan()
handleQuickScan == StartScan
handleFullScan  == StartScan

Next ==
    \/ handleQuickScan
    \/ handleFullScan
    \/ CancelScan
    \/ DemoTimerFires
    \/ RendererReceives
    \/ MainScannerStart
    \/ MainScannerCancel
    \/ ScannerPrints
    \/ ScannerExits
    \/ ScannerKilled
    \/ MainOnClose
    \/ MainOnError

Spec == Init /\ [][Next]_vars

-----------------------------------------------------------------------------
(* Properties of the scan lifecycle.                                       *)

LiveScanners == { p \in 1..MaxScans : Alive(p) }

\* C1: at every moment at most one scanner subprocess started through
\* scanner:start is running.
C1_AtMostOneScannerRunning == Cardinality(LiveScanners) <= 1

\* C2: once cancelScan has been requested for a scan, the store never holds
\* a ScanResult of that scan (and so is never 'complete' because of it).
C2_NoResultOfCancelledScan ==
    resultOf \in cancelled => scanResult.null /\ status # "complete"

CountOf(fs, sev) == Cardinality({ i \in DOMAIN fs : fs[i].severity = sev })

CountsTally(r) ==
    /\ r.criticalCount = Num(CountOf(r.findings, S_CRITICAL))
    /\ r.highCount     = Num(CountOf(r.findings, S_HIGH))
    /\ r.mediumCount   = Num(CountOf(r.findings, S_MEDIUM))
    /\ r.lowCount      = Num(CountOf(r.findings, S_LOW))
    /\ r.infoCount     = Num(CountOf(r.findings, S_INFO))

CountsSum(r) ==
    r.criticalCount.n + r.highCount.n + r.mediumCount.n + r.lowCount.n
      + r.infoCount.n

\* C5: whenever the store holds a ScanResult, its five severity counts sum to
\* findings.length and each equals the number of findings of that severity.
C5_StoredCountsMatchFindings ==
    ~scanResult.null =>
        /\ CountsSum(scanResult.v) = Len(scanResult.v.findings)
        /\ CountsTally(scanResult.v)

-----------------------------------------------------------------------------
(* Validation at the process boundary: one scanner:start or                *)
(* export:generate request with an arbitrary payload reaches the main      *)
(* process, and its handler runs.                                          *)

StrElem(s) == [ isString |-> TRUE, s |-> s ]
NonStringElem == [ isString |-> FALSE, s |-> << >> ]

ModuleElemInputs ==
    { StrElem(S_port), StrElem(S_config),
      StrElem(<< "P","O","R","T" >>),
      StrElem(<< "p","o","r","t"," " >>),
      StrElem(<< "e","v","i","l" >>),
      StrElem(<< >>),
      NonStringElem }

NotAnArray == [ isArray |-> FALSE, items |-> << >> ]

ModuleListInputs ==
    { NotAnArray } \cup
    { [ isArray |-> TRUE, items |-> q ] :
        q \in SeqsUpTo(ModuleElemInputs, MaxModules) }

FilenameChars == { ".", "/", "\\", ":", "C", "a", " " }

S_evil_path == << "C", ":", "\\", "e","v","i","l",".","h","t","m","l" >>

OptionsInputs ==
    { [ isObject |-> FALSE, hasName |-> FALSE, filename |-> << >> ],
      [ isObject |-> TRUE,  hasName |-> FALSE, filename |-> << >> ] } \cup
    { [ isObject |-> TRUE, hasName |-> TRUE, filename |-> f ] :
        f \in SeqsUpTo(FilenameChars, MaxNameLen) \cup { S_evil_path } }

FormatInputs ==
    { StrElem(S_html), StrElem(<< "H","T","M","L" >>),
      StrElem(<< "p","d","f" >>), NonStringElem }

NoOutcome ==
    [ threw |-> FALSE, spawned |-> FALSE, format |-> << >>, filename |-> << >> ]

\* ipcMain.handle('export:generate'): validate, find Python, spawn the
\* export process with  --output <format> --output-file <filename>
ExportGenerateHandler ==
    /\ call.fn = "export:generate"
    /\ ~call.done
    /\ LET validatedFormat  == validateExportFormat(call.in.format)
           validatedOptions == validateExportOptions(call.in.options)
       IN  IF ~validatedFormat.ok
           THEN /\ call' = [ call EXCEPT !.done = TRUE,
                                         !.out = [ NoOutcome EXCEPT !.threw = TRUE ] ]
                /\ UNCHANGED pythonCommand
           ELSE \E cmd \in (IF pythonCommand = "unchecked"
                            THEN { "found", "null" } ELSE { pythonCommand }) :
                  /\ pythonCommand' = cmd
                  /\ call' = [ call EXCEPT !.done = TRUE, !.out =
                       IF cmd = "null"
                       THEN [ NoOutcome EXCEPT !.threw = TRUE ]
                       ELSE [ threw |-> FALSE, spawned |-> TRUE,
                              format |-> validatedFormat.v,
                              filename |-> validatedOptions.filename ] ]
    /\ UNCHANGED << storeVars, mode, viewMode, demoTask, pythonProcess, proc, toMain,
                    toRenderer, nScans, cancelled, resultOf >>

\* the scanner:start handler run on the request under test
ScannerStartRequest ==
    /\ call.fn = "scanner:start"
    /\ ~call.done
    /\ ScannerStartHandler
    /\ call' = [ call EXCEPT !.done = TRUE, !.out =
         [ NoOutcome EXCEPT !.threw = (toRenderer' # << >>),
                            !.spawned = (pythonProcess' # 0) ] ]
    /\ UNCHANGED << storeVars, mode, viewMode, demoTask, nScans, cancelled, resultOf >>

InitValidate ==
    /\ StoreIs(getInitialState)
    /\ mode = "electron"
    /\ FirstRender
    /\ demoTask = [ t \in 1..MaxScans |-> NoDemoTask ]
    /\ pythonProcess = 0
    /\ pythonCommand = "unchecked"
    /\ proc = [ p \in 1..MaxScans |-> NoProc ]
    /\ toRenderer = << >>
    /\ nScans = 0
    /\ cancelled = { }
    /\ resultOf = 0
    /\ \/ /\ \E m \in ModuleListInputs :
               /\ call = [ fn |-> "scanner:start", done |-> FALSE,
                           in |-> m, out |-> NoOutcome ]
               /\ toMain = << Req("start", 1, m) >>
       \/ /\ \E f \in FormatInputs, o \in OptionsInputs :
               call = [ fn |-> "export:generate", done |-> FALSE,
                        in |-> [ format |-> f, options |-> o ],
                        out |-> NoOutcome ]
          /\ toMain = << >>

NextValidate ==
    \/ ScannerStartRequest
    \/ ExportGenerateHandler

SpecValidate == InitValidate /\ [][NextValidate]_vars

\* the module list is one the whitelist does not admit: not a list, or
\* holding a non-string, or holding a string that is not a whitelisted id
OutsideWhitelist(ms) ==
    \/ ~ms.isArray
    \/ \E i \in DOMAIN ms.items :
         \/ ~ms.items[i].isString
         \/ ms.items[i].s \notin ALLOWED_MODULES

\* C3: a scanner:start request whose module list is not a list, holds a
\* non-string or holds an id outside the whitelist fails before any scanner
\* process is spawned and leaves no process handle set.
C3_InvalidModulesNeverSpawn ==
    ( /\ call.fn = "scanner:start"
      /\ call.done
      /\ OutsideWhitelist(call.in) )
    => /\ call.out.threw
       /\ pythonProcess = 0
       /\ \A p \in 1..MaxScans : proc[p].st = "none"

SafeFilename(f) ==
    /\ ~Contains(f, << ".", "." >>)
    /\ \A i \in DOMAIN f : f[i] \notin ReservedChars
    /\ RemoveDriveLetter(f) = f
    /\ RemoveLeadingSlash(f) = f
    /\ f # << >>
    /\ Len(f) <= MaxFilenameLen

\* C4: the filename handed to the export subprocess holds no "..", no
\* separator, no reserved character, no drive or absolute prefix, is
\* non-empty and at most 255 characters long.
C4_ExportFilenameIsSafe ==
    ( /\ call.fn = "export:generate"
      /\ call.done
      /\ call.out.spawned )
    => SafeFilename(call.out.filename)

-----------------------------------------------------------------------------
(* The Risk Engine applied to one list of findings.                        *)

RiskInputs == SeqsUpTo(RiskFindings, MaxFindings)

InitRisk ==
    /\ StoreIs(getInitialState)
    /\ mode = "electron"
    /\ FirstRender
    /\ demoTask = [ t \in 1..MaxScans |-> NoDemoTask ]
    /\ pythonProcess = 0
    /\ pythonCommand = "unchecked"
    /\ proc = [ p \in 1..MaxScans |-> NoProc ]
    /\ toMain = << >>
    /\ toRenderer = << >>
    /\ nScans = 0
    /\ cancelled = { }
    /\ resultOf = 0
    /\ \E fs \in RiskInputs :
         call = [ fn |-> "risk", done |-> FALSE, in |-> fs,
                  out |-> [ score |-> 0, level |-> << >> ] ]

\* the engine scores the list and classifies the score
AssessRisk ==
    /\ call.fn = "risk"
    /\ ~call.done
    /\ LET score == overall_risk_score(call.in) IN
       call' = [ call EXCEPT !.done = TRUE,
                             !.out = [ score |-> score,
                                       level |-> risk_level(score) ] ]
    /\ UNCHANGED << scanVars, pythonProcess, pythonCommand, proc, toMain,
                    toRenderer >>

NextRisk == AssessRisk

SpecRisk == InitRisk /\ [][NextRisk]_vars

Assessed == call.fn = "risk" /\ call.done

C7_RiskLevelBands ==
    Assessed =>
      LET score == call.out.score
          level == call.out.level
      IN  /\ score >= 9000 => level = S_CRITICAL
          /\ (7000 <= score /\ score < 9000) => level = S_HIGH
          /\ (4000 <= score /\ score < 7000) => level = S_MEDIUM
          /\ (0 < score /\ score < 4000) => level = S_LOW
          /\ score = 0 => level = S_SAFE
          /\ call.in = << >> => score = 0 /\ level = S_SAFE

\* a score exactly on a lower bound has been classified
C7_Witness_OnTheBound ==
    /\ Assessed
    /\ call.out.score = 7000
    /\ call.out.level = S_HIGH

\* cvss * 1.2 if exposed * 1.1 if no authentication, at most 10.0
BoostedScore(f) ==
    LET boosted == ( f.cvss_score
                       * (IF f.is_publicly_exposed THEN 12 ELSE 10)
                       * (IF f.requires_no_auth THEN 11 ELSE 10) ) \div 100
    IN  IF boosted > 10000 THEN 10000 ELSE boosted

Plain(cvss)   == [ cvss_score |-> cvss, is_publicly_exposed |-> FALSE,
                   requires_no_auth |-> FALSE ]
Exposed(cvss) == [ cvss_score |-> cvss, is_publicly_exposed |-> TRUE,
                   requires_no_auth |-> TRUE ]

-----------------------------------------------------------------------------
(* The normalizer applied to one raw result, in one convention or in both. *)

NoScanResult == << >>

InitNorm ==
    /\ StoreIs(getInitialState)
    /\ mode = "electron"
    /\ FirstRender
    /\ demoTask = [ t \in 1..MaxScans |-> NoDemoTask ]
    /\ pythonProcess = 0
    /\ pythonCommand = "unchecked"
    /\ proc = [ p \in 1..MaxScans |-> NoProc ]
    /\ toMain = << >>
    /\ toRenderer = << >>
    /\ nScans = 0
    /\ cancelled = { }
    /\ resultOf = 0
    /\ \E rv \in ResultInputs :
         \/ \E conv \in Conventions :
              call = [ fn |-> "normalize", done |-> FALSE, in |-> rv,
                       conv |-> conv, threw |-> FALSE,
                       out |-> NoScanResult, other |-> NoScanResult ]
         \/ call = [ fn |-> "both", done |-> FALSE, in |-> rv,
                     conv |-> "snake", threw |-> FALSE,
                     out |-> NoScanResult, other |-> NoScanResult ]

\* normalizeScanResult(raw) on the raw result written in call.conv
NormalizeOne ==
    /\ call.fn = "normalize"
    /\ ~call.done
    /\ LET raw == EncodeResult(call.conv, call.in) IN
       IF normalizeScanResultThrows(raw)
       THEN call' = [ call EXCEPT !.done = TRUE, !.threw = TRUE ]
       ELSE \E now \in ClockReadings :
              call' = [ call EXCEPT !.done = TRUE,
                                    !.out = normalizeScanResult(raw, now) ]
    /\ UNCHANGED << scanVars, pythonProcess, pythonCommand, proc, toMain,
                    toRenderer >>

\* normalizeScanResult on the snake_case writing, then on the camelCase
\* writing of the same values; the clock does not run backwards in between
NormalizeBoth ==
    /\ call.fn = "both"
    /\ ~call.done
    /\ LET snake == EncodeResult("snake", call.in)
           camel == EncodeResult("camel", call.in)
       IN  IF normalizeScanResultThrows(snake) \/ normalizeScanResultThrows(camel)
           THEN call' = [ call EXCEPT !.done = TRUE, !.threw = TRUE ]
           ELSE \E t1 \in ClockReadings, t2 \in ClockReadings :
                  /\ t1 <= t2
                  /\ call' = [ call EXCEPT !.done = TRUE,
                                 !.out = normalizeScanResult(snake, t1),
                                 !.other = normalizeScanResult(camel, t2) ]
    /\ UNCHANGED << scanVars, pythonProcess, pythonCommand, proc, toMain,
                    toRenderer >>

NextNorm ==
    \/ NormalizeOne
    \/ NormalizeBoth

SpecNorm == InitNorm /\ [][NextNorm]_vars

NormalizedBoth == call.fn = "both" /\ call.done /\ ~call.threw

SameButTimestamp(a, b) ==
    [ a EXCEPT !.timestamp = Undefined ] = [ b EXCEPT !.timestamp = Undefined ]

IsEnum(v, names) == v.t = "str" /\ toUpperCase(v.s) \in names

FindingsOf(rv) == IF rv.findings.t = "arr" THEN rv.findings.a ELSE << >>

\* C10: whatever the severity, category and riskLevel values of the raw
\* result are (unknown strings, numbers, booleans, objects), normalizeScanResult
\* returns, with each such field at its default INFO / CONFIGURATION / SAFE.
C10_BadEnumFieldsGetDefaults ==
    ( /\ call.fn = "normalize"
      /\ call.done
      /\ call.in.findings.t \in { "arr", "undef" } )
    => /\ ~call.threw
       /\ \A i \in DOMAIN FindingsOf(call.in) :
            LET f == FindingsOf(call.in)[i] IN
            /\ ~IsEnum(f.severity, Severities)
                 => call.out.findings[i].severity = S_INFO
            /\ ~IsEnum(f.category, Categories)
                 => call.out.findings[i].category = S_CONFIGURATION
       /\ ~IsEnum(call.in.level, RiskLevels) => call.out.riskLevel = S_SAFE

-----------------------------------------------------------------------------
(* normalizeRemediationSteps applied to one list of raw steps.             *)

S_RunInstall ==
    << "R","u","n"," ","i","n","s","t","a","l","l",":"," ",
       "n","p","m"," ","i","n","s","t","a","l","l"," ","-","g"," ",
       "t","o","o","l" >>
S_RestartService ==
    << "R","e","s","t","a","r","t"," ","t","h","e"," ",
       "s","e","r","v","i","c","e" >>

Pad(n) == [ i \in 1..n |-> "a" ]

\* step strings: every short string of letters, colons and blanks, the two
\* documented examples, and strings whose ": " sits around position 50
StepStrings ==
    SeqsUpTo({ "a", ":", " " }, MaxStepLen)
    \cup { S_RunInstall, S_RestartService, S_RunCmd, S_Url }
    \cup { Pad(k) \o << ":", " ", "x" >> : k \in { 48, 49, 50, 51 } }
    \cup { Pad(k) \o << ":", "x" >> : k \in { 49, 50 } }

StepElems ==
    { StringStep(S_RunCmd), StringStep(S_Restart),
      ObjectStep(Num(1), Str(S_Restart), Undefined, Str(S_Path)),
      ObjectStep(Num(3), Str(S_Restart), Str(S_RunCmd), Undefined),
      ObjectStep(Undefined, Undefined, Undefined, Undefined) }

StepListInputs ==
    { Arr(<< StringStep(str) >>) : str \in StepStrings }
    \cup { Arr(q) : q \in SeqsUpTo(StepElems, MaxSteps) }
    \cup { NoArr }

InitSteps ==
    /\ StoreIs(getInitialState)
    /\ mode = "electron"
    /\ FirstRender
    /\ demoTask = [ t \in 1..MaxScans |-> NoDemoTask ]
    /\ pythonProcess = 0
    /\ pythonCommand = "unchecked"
    /\ proc = [ p \in 1..MaxScans |-> NoProc ]
    /\ toMain = << >>
    /\ toRenderer = << >>
    /\ nScans = 0
    /\ cancelled = { }
    /\ resultOf = 0
    /\ \E steps \in StepListInputs, conv \in Conventions :
         call = [ fn |-> "steps", done |-> FALSE,
                  in |-> EncodeSteps(conv, steps), out |-> << >> ]

NormalizeSteps ==
    /\ call.fn = "steps"
    /\ ~call.done
    /\ call' = [ call EXCEPT !.done = TRUE,
                             !.out = normalizeRemediationSteps(call.in) ]
    /\ UNCHANGED << scanVars, pythonProcess, pythonCommand, proc, toMain,
                    toRenderer >>

NextSteps == NormalizeSteps

SpecSteps == InitSteps /\ [][NextSteps]_vars

\* one string step has been normalized
OneStringStep ==
    /\ call.fn = "steps"
    /\ call.done
    /\ call.in.t = "arr"
    /\ Len(call.in.a) = 1
    /\ call.in.a[1].isString

\* 1-based positions of sep in str within the first 50 characters
SplitPoints(str, sep) ==
    { i \in 1..Len(str) : OccursAt(str, sep, i) /\ i <= 50 }
FirstOf(S) == CHOOSE i \in S : \A j \in S : i <= j

TextOf(v) == IF v.t = "str" THEN v.s ELSE << >>

\* the step that splitting str at the separator sep should give
SplitStep(str, sep) ==
    LET pts == SplitPoints(str, sep) IN
    IF pts = { }
    THEN [ instruction |-> str, code |-> << >> ]
    ELSE [ instruction |-> SubSeq(str, 1, FirstOf(pts) - 1),
           code |-> Trim(SubSeq(str, FirstOf(pts) + Len(sep), Len(str))) ]

StepIsSplit(step, str, sep) ==
    /\ step.step = Num(1)
    /\ step.instruction = Str(SplitStep(str, sep).instruction)
    /\ TextOf(step.code) = SplitStep(str, sep).code
    /\ SplitPoints(str, sep) = { } => step.code = Undefined

\* C11 as stated: a string step with a colon in its first 50 characters
\* becomes instruction = text before the colon, code = text after it; one
\* without becomes instruction = the whole string, code undefined.
C11_SplitAtColon ==
    OneStringStep => StepIsSplit(call.out[1], call.in.a[1].s, << ":" >>)

\* C11 amended: the split is at the first colon that is followed by a blank
\* (": ") and lies in the first 50 characters; code is the trimmed text after
\* it, undefined when that is empty.  Both documented examples come out as
\* stated.
C11_SplitAtColonBlank ==
    OneStringStep =>
      LET str == call.in.a[1].s
          step == call.out[1]
      IN  /\ StepIsSplit(step, str, << ":", " " >>)
          /\ step.code # Str(<< >>)
          /\ str = S_RunInstall =>
               /\ step.instruction = Str(<< "R","u","n"," ","i","n","s","t","a","l","l" >>)
               /\ step.code = Str(<< "n","p","m"," ","i","n","s","t","a","l","l"," ",
                                     "-","g"," ","t","o","o","l" >>)
          /\ str = S_RestartService =>
               step.instruction = Str(S_RestartService) /\ step.code = Undefined

\* the documented example has been split
C11_Witness_RunInstall ==
    /\ OneStringStep
    /\ call.in.a[1].s = S_RunInstall
    /\ call.out[1].code # Undefined
    /\ Len(call.out[1].instruction.s) = 11

\* C12: the normalized steps have the length and the order of the raw
\* sequence and are numbered 1..n by position, for string steps, step
\* objects and mixtures.
C12_StepsKeepLengthOrderNumbers ==
    (call.fn = "steps" /\ call.done /\ call.in.t = "arr") =>
      /\ Len(call.out) = Len(call.in.a)
      /\ \A i \in DOMAIN call.in.a :
           LET raw == call.in.a[i]
               step == call.out[i]
           IN  /\ step.step = Num(i)
               /\ raw.isString =>
                    SubSeq(raw.s, 1, Len(step.instruction.s)) = step.instruction.s
               /\ ~raw.isString =>
                    step.instruction = Coalesce(raw.instruction, Str(<< >>))

-----------------------------------------------------------------------------
(* The normalizer applied to a raw result that mixes the two conventions:  *)
(* each of a few fields is written in snake_case, in camelCase, in both    *)
(* (with different values) or not at all.                                  *)

MixedFields ==
    { "scanId", "duration", "level", "critical", "cvss", "display", "steps" }
Presence == { "neither", "snake", "camel", "both" }

\* the value a field has where it is written in snake_case
SnakeValue(field) ==
    CASE field = "scanId"   -> Str(<< "s","1" >>)
      [] field = "duration" -> Num(0)
      [] field = "level"    -> Str(S_high)
      [] field = "critical" -> Num(0)
      [] field = "cvss"     -> Num(0)
      [] field = "display"  -> Str(<< "L" >>)
      [] field = "steps"    -> Arr(<< >>)

\* the (different) value it has where it is written in camelCase
CamelValue(field) ==
    CASE field = "scanId"   -> Str(<< "s","2" >>)
      [] field = "duration" -> Num(3)
      [] field = "level"    -> Str(<< "l","o","w" >>)
      [] field = "critical" -> Num(2)
      [] field = "cvss"     -> Num(9500)
      [] field = "display"  -> Str(<< "M" >>)
      [] field = "steps"    -> Arr(<< EncodeStep("camel", StringStep(S_Restart)) >>)

Absent(field) == IF field = "steps" THEN NoArr ELSE Undefined

MixedRaw(pick) ==
    LET sn(f) == IF pick[f] \in { "snake", "both" } THEN SnakeValue(f) ELSE Absent(f)
        cm(f) == IF pick[f] \in { "camel", "both" } THEN CamelValue(f) ELSE Absent(f)
        base  == EncodeResult("snake", BaseResult)
        both  == EncodeResult("camel", BaseResult)
    IN  [ base EXCEPT
            !.scan_id          = sn("scanId"),
            !.scanId           = cm("scanId"),
            !.duration_seconds = sn("duration"),
            !.durationSeconds  = cm("duration"),
            !.risk_level       = sn("level"),
            !.riskLevel        = cm("level"),
            !.summary          = [ base.summary EXCEPT !.critical_count = sn("critical") ],
            !.criticalCount    = cm("critical"),
            !.system_info      = [ base.system_info EXCEPT !.platform_display = sn("display") ],
            !.systemInfo       = [ both.systemInfo EXCEPT !.platformDisplay = cm("display") ],
            !.findings         = Arr(<< [ base.findings.a[1] EXCEPT
                                   !.cvss_score        = sn("cvss"),
                                   !.cvssScore         = cm("cvss"),
                                   !.remediation_steps = sn("steps"),
                                   !.remediationSteps  = cm("steps") ] >>) ]

InitMixed ==
    /\ StoreIs(getInitialState)
    /\ mode = "electron"
    /\ FirstRender
    /\ demoTask = [ t \in 1..MaxScans |-> NoDemoTask ]
    /\ pythonProcess = 0
    /\ pythonCommand = "unchecked"
    /\ proc = [ p \in 1..MaxScans |-> NoProc ]
    /\ toMain = << >>
    /\ toRenderer = << >>
    /\ nScans = 0
    /\ cancelled = { }
    /\ resultOf = 0
    /\ \E pick \in [ MixedFields -> Presence ] :
         call = [ fn |-> "mixed", done |-> FALSE, in |-> pick,
                  out |-> NoScanResult ]

NormalizeMixed ==
    /\ call.fn = "mixed"
    /\ ~call.done
    /\ \E now \in ClockReadings :
         call' = [ call EXCEPT !.done = TRUE,
                               !.out = normalizeScanResult(MixedRaw(call.in), now) ]
    /\ UNCHANGED << scanVars, pythonProcess, pythonCommand, proc, toMain,
                    toRenderer >>

NextMixed == NormalizeMixed

SpecMixed == InitMixed /\ [][NextMixed]_vars

\* snake_case value if written, else camelCase value if written, else default
Preferred(pick, field, default) ==
    IF pick[field] \in { "snake", "both" } THEN SnakeValue(field)
    ELSE IF pick[field] = "camel" THEN CamelValue(field)
    ELSE default

-----------------------------------------------------------------------------
(* Coercion at the process boundary (requests of SpecValidate).            *)

\* C14: a module id or an export format is accepted only if the supplied
\* string is itself in the allowed set, and invalid export options are
\* rejected, not replaced by defaults or rewritten.
C14_NoSilentCoercion ==
    /\ ( call.fn = "scanner:start" /\ call.done /\ call.out.spawned )
       => \A i \in DOMAIN call.in.items :
            /\ call.in.items[i].isString
            /\ call.in.items[i].s \in ALLOWED_MODULES
    /\ ( call.fn = "export:generate" /\ call.done /\ call.out.spawned )
       => /\ call.in.format.isString
          /\ call.in.format.s \in ALLOWED_FORMATS
          /\ call.in.options.isObject
          /\ call.in.options.hasName =>
               call.out.filename = call.in.options.filename

HasDrivePrefix(f) ==
    Len(f) >= 2 /\ (IsLower(f[1]) \/ IsUpper(f[1])) /\ f[2] = ":"

\* C15: from a filename that starts with a drive prefix (a letter and ':')
\* sanitization removes the whole prefix and every backslash; 'C:\evil.html'
\* becomes 'evil.html'.
C15_DrivePrefixRemoved ==
    ( /\ call.fn = "export:generate"
      /\ call.done
      /\ call.out.spawned
      /\ call.in.options.hasName
      /\ HasDrivePrefix(call.in.options.filename) )
    => LET given == call.in.options.filename
           name  == call.out.filename
       IN  /\ \A i \in DOMAIN name : name[i] # "\\"
           /\ name # S_report_html => Len(name) <= Len(given) - 2
           /\ given = S_evil_path =>
                name = << "e","v","i","l",".","h","t","m","l" >>

-----------------------------------------------------------------------------
(* Module selection.  The checkboxes of ModuleSelector sit inside           *)
(* ScanControls, which App renders only while no scan is running.  In this  *)
(* specification the user picks modules and then runs one scan.             *)

ToggleModule(moduleId) ==
    /\ status # "scanning"
    /\ StoreBecomes(toggleModule(Store, moduleId))
    /\ UNCHANGED << mode, viewMode, demoTask, pythonProcess, pythonCommand, proc, toMain,
                    toRenderer, nScans, cancelled, resultOf, call >>

PickModules ==
    /\ nScans = 0
    /\ \E i \in DOMAIN modules : ToggleModule(modules[i].id)

StartFirstScan == nScans = 0 /\ StartScan

NextModules ==
    \/ PickModules
    \/ StartFirstScan
    \/ CancelScan
    \/ DemoTimerFires
    \/ RendererReceives
    \/ MainScannerStart
    \/ MainScannerCancel
    \/ ScannerPrints
    \/ ScannerExits
    \/ ScannerKilled
    \/ MainOnClose
    \/ MainOnError

SpecModules == Init /\ [][NextModules]_vars

\* the scan was started with every module unchecked and has not been
\* cancelled (cancelScan's reset() checks every module again)
StartedWithNoModules == nScans = 1 /\ getEnabledModules(Store) = << >>

\* C16: a scan started with zero enabled modules ends with status
\* 'complete' and a stored result with no findings, risk level SAFE and all
\* five severity counts zero.
C16_EmptyScanCompletesSafe ==
    (StartedWithNoModules /\ status # "scanning") =>
        /\ status = "complete"
        /\ error.null
        /\ ~scanResult.null
        /\ findings = << >>
        /\ scanResult.v.findings = << >>
        /\ scanResult.v.riskLevel = S_SAFE
        /\ \A c \in { "criticalCount", "highCount", "mediumCount", "lowCount",
                       "infoCount" } : scanResult.v[c] = Num(0)
-----------------------------------------------------------------------------
(* Partial scans.  The close handler treats exit codes 0, 1 and 2 alike    *)
(* and the exit code is not part of what it sends to the renderer.         *)

PartialExit == 2
OneMediumOutput == Len(BackendOutputs)

\* the store after startScan and the result listener, as a run whose scanner
\* exits with code 0 and prints BackendOutputs[json] leaves it
CleanCompletion(json) ==
    setScanResult(setError(setStatus(getInitialState, "scanning"), NoError),
                  normalizeScanResult(BackendOutputs[json], 0))

\* scan p exited with the given code and its result is the one in the store
ResultStoredAfterExit(p, code, json) ==
    /\ resultOf = p
    /\ proc[p].st = "closed"
    /\ proc[p].code = code
    /\ status = "complete"
    /\ scanResult = CleanCompletion(json).scanResult

\* C17: after the scanner exits with code 2 and one MEDIUM finding in its
\* output, the store holds a result with exactly that finding, and the
\* store's state is not the one a clean completion leaves.
C17_PartialScanIsLabelled ==
    \A p \in 1..MaxScans :
        ResultStoredAfterExit(p, PartialExit, OneMediumOutput) =>
            /\ Len(findings) = 1
            /\ findings[1].severity = S_MEDIUM
            /\ scanResult.v.findings = findings
            /\ Store # CleanCompletion(OneMediumOutput)

-----------------------------------------------------------------------------
(* Progress of a scan.  The scanner subprocess eventually exits (or dies   *)
(* once signalled), Node emits 'close' after the exit, both IPC directions *)
(* are eventually handled and the demo timers eventually fire.  What the   *)
(* user does (start, cancel) is not forced.                                *)

Fairness ==
    /\ WF_vars(MainScannerStart)
    /\ WF_vars(MainScannerCancel)
    /\ WF_vars(ScannerExits)
    /\ WF_vars(ScannerKilled)
    /\ WF_vars(MainOnClose)
    /\ WF_vars(RendererReceives)
    /\ WF_vars(DemoTimerFires)

SpecLive == Spec /\ Fairness

\* C18: a store that entered status 'scanning' eventually leaves it.
C18_ScanningEventuallyEnds == (status = "scanning") ~> (status # "scanning")

-----------------------------------------------------------------------------
(* The status cycle.  setScanResult and setError write the status without *)
(* looking at the one they replace.                                        *)

\* C19: in every step that makes the status 'complete' or 'error', the
\* status before the step is 'scanning'; in particular never 'idle'.
C19_CompleteOrErrorOnlyFromScanning ==
    [][ (status' \in { "complete", "error" } /\ status' # status)
            => status = "scanning" ]_vars
-----------------------------------------------------------------------------
(* Listener bookkeeping.  The channels belong to ipcRenderer, which the    *)
(* preload script exposes as window.scanner; without it useScanner's       *)
(* effect returns before registering anything.                             *)

\* C20: with the preload bridge present, on each of the two channels every
\* mounted useScanner instance has exactly one handler and an unmounted one
\* has none, so the live listeners of a channel number as many as the
\* mounted instances, however many scans have run.
C20_ListenersMatchMountedHooks ==
    /\ mode = "electron" =>
          \A ch \in Channels :
            /\ \A c \in Components :
                 listeners[ch][c] = IF c \in mounted THEN 1 ELSE 0
            /\ LiveListeners(listeners, ch) = Cardinality(mounted)
    /\ mode = "demo" => listeners = NoListeners

\* the last of several scans has delivered its result: the two components
\* have been swapped at every start and every end of a scan
C20_Witness_ScanControlsBackAfterScans ==
    /\ mode = "electron"
    /\ nScans = MaxScans
    /\ resultOf = MaxScans
    /\ status = "complete"
    /\ mounted = { "ScanControls" }
    /\ LiveListeners(listeners, "scanner:result") = 1
-----------------------------------------------------------------------------
(* The two findings views.  Both read scanResult, status and               *)
(* filterSeverity from the store; which of them is on screen is viewMode.  *)

SEVERITY_ORDER == << S_CRITICAL, S_HIGH, S_MEDIUM, S_LOW, S_INFO >>

S_not_installed ==
    << "n","o","t"," ","i","n","s","t","a","l","l","e","d" >>
S_not_configured ==
    << "n","o","t"," ","c","o","n","f","i","g","u","r","e","d" >>

isPriorityFinding(finding) ==
    \/ finding.id = Str(PRIORITY_FINDING_ID)
    \/ Contains(toLowerCase(finding.title.s), S_not_installed)
    \/ Contains(toLowerCase(finding.title.s), S_not_configured)

\* filterSeverity === 'ALL' ? allFindings : allFindings.filter(...)
ApplyFilter(allFindings, filter) ==
    LET keep(f) == f.severity = filter
    IN  IF filter = S_ALL THEN allFindings ELSE SelectSeq(allFindings, keep)

PriorityOf(fs) ==
    LET keep(f) == isPriorityFinding(f) IN SelectSeq(fs, keep)
RegularOf(fs) ==
    LET keep(f) == ~isPriorityFinding(f) IN SelectSeq(fs, keep)

groupFindingsBySeverity(fs) ==
    [ sev \in Severities |->
        LET keep(f) == f.severity = sev IN SelectSeq(fs, keep) ]

\* what a view puts on screen: the alerts ahead of the groups, and the
\* findings of each severity group (an empty group is not rendered)
NoDisplay == [ shown |-> FALSE, priority |-> << >>,
              groups |-> [ sev \in Severities |-> << >> ] ]

DevFindingsDisplay(st) ==
    IF st.status # "complete" \/ st.scanResult.null THEN NoDisplay
    ELSE LET filteredFindings ==
                 ApplyFilter(st.scanResult.v.findings, st.filterSeverity)
         IN  [ shown    |-> TRUE,
               priority |-> PriorityOf(filteredFindings),
               groups   |-> groupFindingsBySeverity(RegularOf(filteredFindings)) ]

\* the groups of the friendly view, with every group showing its findings
UserGroups_unfiltered(filteredFindings) ==
    groupFindingsBySeverity(filteredFindings)

\* the groups of the friendly view: all filtered findings are grouped, and
\* each group is rendered without its priority findings
UserGroups(filteredFindings) ==
    LET groupedFindings == groupFindingsBySeverity(filteredFindings)
    IN  [ sev \in Severities |-> RegularOf(groupedFindings[sev]) ]

UserFindingsDisplay(st) ==
    IF st.status # "complete" \/ st.scanResult.null THEN NoDisplay
    ELSE LET filteredFindings ==
                 ApplyFilter(st.scanResult.v.findings, st.filterSeverity)
         IN  [ shown    |-> TRUE,
               priority |-> PriorityOf(filteredFindings),
               groups   |-> UserGroups(filteredFindings) ]

CountSeverity(fs, sev) ==
    Cardinality({ i \in DOMAIN fs : fs[i].severity = sev })

\* the title of the friendly view's status card
getStatusMessage(fs) ==
    IF Len(fs) = 0 THEN "All Clear!"
    ELSE IF CountSeverity(fs, S_CRITICAL) > 0 THEN "urgent issues found"
    ELSE IF CountSeverity(fs, S_HIGH) > 0 THEN "important issues to address"
    ELSE "items to review"

UserStatusTitle(st) ==
    getStatusMessage(ApplyFilter(st.scanResult.v.findings, st.filterSeverity))

\* the options of the filter dropdown: the developer view lists all five
\* severities, the friendly view those with at least one finding
FilterOptions(st, view) ==
    { S_ALL } \cup
    { sev \in Severities :
        view = "dev" \/ CountSeverity(st.scanResult.v.findings, sev) > 0 }

(* Results for the views: what normalizeScanResult makes of backend output *)
(* with up to MaxFindings findings.                                        *)
S_Missing == << "T","o","o","l"," ","N","o","t"," ",
                "I","n","s","t","a","l","l","e","d" >>
ViewFindingPool ==
    { [ BaseFinding EXCEPT !.id = Str(PRIORITY_FINDING_ID),
                           !.severity = Str(<< "i","n","f","o" >>) ],
      [ BaseFinding EXCEPT !.id = Str(S_F2), !.title = Str(S_Missing) ],
      BaseFinding,
      [ BaseFinding EXCEPT !.id = Undefined, !.severity = Str(S_medium) ] }

ViewResults ==
    { normalizeScanResult(
        EncodeResult("snake",
          [ BaseResult EXCEPT !.findings = Arr(fs),
                              !.counts = TallyCounts(fs) ]), 0) :
        fs \in SeqsUpTo(ViewFindingPool, MaxFindings) }

\* a scan has completed: startScan, then the result listener
AfterScan(st, result) ==
    setScanResult(setError(setStatus(st, "scanning"), NoError), result)

ViewsShown == status = "complete" /\ ~scanResult.null
OtherThanStore ==
    << mode, demoTask, pythonProcess, pythonCommand, proc, toMain, toRenderer,
       nScans, cancelled, resultOf, call >>

InitViews ==
    /\ \E result \in ViewResults :
         StoreIs(AfterScan(getInitialState, result))
    /\ mode = "electron"
    /\ FirstRender
    /\ demoTask = [ t \in 1..MaxScans |-> NoDemoTask ]
    /\ pythonProcess = 0
    /\ pythonCommand = "unchecked"
    /\ proc = [ p \in 1..MaxScans |-> NoProc ]
    /\ toMain = << >>
    /\ toRenderer = << >>
    /\ nScans = 0
    /\ cancelled = { }
    /\ resultOf = 0
    /\ call = NoCall

\* handleFilterChange of the view on screen
FilterChange ==
    /\ ViewsShown
    /\ \E value \in FilterOptions(Store, viewMode) :
         StoreBecomes(setFilterSeverity(Store, value))
    /\ UNCHANGED << viewMode, OtherThanStore >>

toggleViewMode ==
    /\ viewMode' = IF viewMode = "dev" THEN "user" ELSE "dev"
    /\ UNCHANGED << storeVars, OtherThanStore >>

\* onToggle of a DevFindingCard, which the developer view renders for the
\* findings of its groups
ExpandFinding ==
    /\ ViewsShown
    /\ viewMode = "dev"
    /\ \E sev \in Severities :
         \E i \in DOMAIN DevFindingsDisplay(Store).groups[sev] :
           StoreBecomes(toggleFinding(Store,
             DevFindingsDisplay(Store).groups[sev][i].id))
    /\ UNCHANGED << viewMode, OtherThanStore >>

\* another scan completes with its own result
Rescan ==
    /\ \E result \in ViewResults : StoreBecomes(AfterScan(Store, result))
    /\ UNCHANGED << viewMode, OtherThanStore >>

NextViews ==
    \/ FilterChange
    \/ toggleViewMode
    \/ ExpandFinding
    \/ Rescan

SpecViews == InitViews /\ [][NextViews]_vars

HasPriorityId(f) == f.id = Str(PRIORITY_FINDING_ID)

\* the finding with the reserved id is among the alerts and in no group
AheadOfGroups(d) ==
    /\ \E i \in DOMAIN d.priority : HasPriorityId(d.priority[i])
    /\ \A sev \in Severities :
         \A i \in DOMAIN d.groups[sev] : ~HasPriorityId(d.groups[sev][i])

\* C21: when the stored result contains the finding with the reserved
\* priority id, both views show it ahead of the severity groups and in none
\* of them, whatever its severity and whatever the filter.
C21_PriorityFindingAlwaysFirst ==
    ( /\ ViewsShown
      /\ \E i \in DOMAIN scanResult.v.findings :
           HasPriorityId(scanResult.v.findings[i]) )
    => /\ AheadOfGroups(DevFindingsDisplay(Store))
       /\ AheadOfGroups(UserFindingsDisplay(Store))

\* everything a display shows, alerts first and then the groups in order
Flatten(d) ==
    d.priority \o d.groups[S_CRITICAL] \o d.groups[S_HIGH] \o
    d.groups[S_MEDIUM] \o d.groups[S_LOW] \o d.groups[S_INFO]

Occurrences(fs, f) == Cardinality({ i \in DOMAIN fs : fs[i] = f })

\* every finding that passes the filter is shown exactly once
ShowsEachOnce(d, filtered) ==
    /\ Len(Flatten(d)) = Len(filtered)
    /\ \A i \in DOMAIN filtered :
         Occurrences(Flatten(d), filtered[i]) = Occurrences(filtered, filtered[i])

C24_FindingIdsDistinct ==
    ViewsShown =>
        LET fs    == scanResult.v.findings
            cards == Flatten([ DevFindingsDisplay(Store) EXCEPT
                                 !.priority = << >> ])
        IN  /\ \A i, j \in DOMAIN fs : fs[i].id = fs[j].id => i = j
            /\ \A i \in DOMAIN cards :
                 Cardinality({ j \in DOMAIN cards :
                                 cards[j].id = cards[i].id }) = 1

\* C30: the friendly view's status card says 'All Clear!' only when the
\* stored result has no findings, whatever the filter.
C30_AllClearOnlyWithoutFindings ==
    ( /\ ViewsShown
      /\ viewMode = "user"
      /\ UserStatusTitle(Store) = "All Clear!" )
    => Len(scanResult.v.findings) = 0
-----------------------------------------------------------------------------
(* Scoring consistency of what the store holds.  normalizeScanResult and   *)
(* getDemoResult write score, level and findings independently.            *)

\* C23: the overall risk score of a stored result lies in [0, 10], is not
\* below the largest cvss score of its findings, and its risk level is the
\* band of the score.
C23_StoredResultFollowsScoring ==
    ~scanResult.null =>
        LET r == scanResult.v IN
        /\ r.overallRiskScore.n >= 0
        /\ r.overallRiskScore.n <= ScoreCap
        /\ \A i \in DOMAIN r.findings :
             r.findings[i].cvssScore.n <= r.overallRiskScore.n
        /\ r.riskLevel = risk_level(r.overallRiskScore.n)
-----------------------------------------------------------------------------
(* Scan breadth.                                                           *)

QuickModules == { S_port, S_config }

\* the module names of the start request a step puts on the channel
RequestedModules(req) == { req.modules.items[i].s : i \in DOMAIN req.modules.items }

\* C25: the start request of a quick scan names exactly the modules port
\* and config; that of a full scan names the enabled modules.
C25_QuickScanSendsPortAndConfig ==
    [][ /\ (handleQuickScan /\ mode = "electron") =>
             RequestedModules(toMain'[Len(toMain')]) = QuickModules
        /\ (handleFullScan /\ mode = "electron") =>
             toMain'[Len(toMain')].modules =
               StringList(getEnabledModules(Store)) ]_vars
-----------------------------------------------------------------------------
(* Fields of a finding across normalization.                               *)

NormalizedOne == call.fn = "normalize" /\ call.done /\ ~call.threw

\* the normalized finding has the field, with the value the raw one supplies
Carried(nf, field, v) ==
    (v.t \notin { "undef", "noarr" }) => (field \in DOMAIN nf /\ nf[field] = v)

\* the fields that normalizeScanResult copies
CopiedFieldsCarried(fv, nf) ==
    /\ Carried(nf, "id", fv.id)
    /\ Carried(nf, "title", fv.title)
    /\ Carried(nf, "description", fv.description)
    /\ Carried(nf, "cvssScore", fv.cvss)
    /\ Carried(nf, "location", fv.location)
    /\ Carried(nf, "remediation", fv.remediation)
    /\ Carried(nf, "references", fv.refs)

\* C26: every field of the Finding model that a raw finding supplies is in
\* the normalized finding with the same value (severity, category and the
\* remediation steps, which are rewritten on purpose, aside).
C26_NoFindingFieldDropped ==
    NormalizedOne =>
        \A i \in DOMAIN call.in.findings.a :
            /\ CopiedFieldsCarried(call.in.findings.a[i], call.out.findings[i])
            /\ Carried(call.out.findings[i], "fixPrompt",
                       call.in.findings.a[i].fixPrompt)
\* a scanner subprocess that runs and has not been sent a signal
RunningUnsignalled(p) == Alive(p) /\ ~proc[p].sig

\* C27: while a subprocess started by scanner:start is running (and was not
\* cancelled already), the main-process handle pythonProcess refers to it,
\* so that scanner:cancel would kill it; the close or error event of an
\* earlier subprocess never leaves a later one without the handle.
C27_HandleRefersToRunningScanner ==
    \A p \in 1..MaxScans : RunningUnsignalled(p) => pythonProcess = p

\* C28: at every step that makes the status 'scanning', the progress list
\* is empty afterwards: the progress view starts without entries left over
\* from an earlier failed, cancelled or completed scan.
C28_ProgressEmptyWhenScanStarts ==
    [][(status # "scanning" /\ status' = "scanning") => progress' = << >>]_vars

-----------------------------------------------------------------------------
(* The progress list under setProgress calls alone.                        *)

MaxUpdates == 4
ProgressModules == { S_port, S_config, S_network }
ProgressStatuses == { "in_progress", "complete" }
ProgressUpdates ==
    { [ module |-> m, status |-> s, percentage |-> Undefined ] :
        m \in ProgressModules, s \in ProgressStatuses }

\* the setProgress calls made so far, in order
Updates == call.updates

InitProgress ==
    /\ StoreIs(setError(setStatus(getInitialState, "scanning"), NoError))
    /\ mode = "electron"
    /\ FirstRender
    /\ demoTask = [ t \in 1..MaxScans |-> NoDemoTask ]
    /\ pythonProcess = 0
    /\ pythonCommand = "unchecked"
    /\ proc = [ p \in 1..MaxScans |-> NoProc ]
    /\ toMain = << >>
    /\ toRenderer = << >>
    /\ nScans = 0
    /\ cancelled = { }
    /\ resultOf = 0
    /\ call = [ fn |-> "setProgress", updates |-> << >> ]

SetProgress ==
    /\ Len(Updates) < MaxUpdates
    /\ \E progressUpdate \in ProgressUpdates :
         /\ StoreBecomes(setProgress(Store, progressUpdate))
         /\ call' = [ call EXCEPT !.updates = Append(@, progressUpdate) ]
    /\ UNCHANGED << mode, viewMode, demoTask, pythonProcess, pythonCommand, proc,
                    toMain, toRenderer, nScans, cancelled, resultOf >>

NextProgress == SetProgress

SpecProgress == InitProgress /\ [][NextProgress]_vars

\* positions of the updates of one module
UpdatesOf(m) == { k \in DOMAIN Updates : Updates[k].module = m }
FirstUpdate(m) == CHOOSE k \in UpdatesOf(m) : \A l \in UpdatesOf(m) : k <= l
LastUpdate(m) == CHOOSE k \in UpdatesOf(m) : \A l \in UpdatesOf(m) : l <= k

\* C29: after any sequence of setProgress calls the progress list holds at
\* most one entry per module id, exactly the updated modules, each entry
\* being the most recent update of its module, in the order in which the
\* modules were first updated.
C29_OneLatestEntryPerModule ==
    /\ \A i, j \in DOMAIN progress :
         progress[i].module = progress[j].module => i = j
    /\ { progress[i].module : i \in DOMAIN progress } =
         { Updates[k].module : k \in DOMAIN Updates }
    /\ \A i \in DOMAIN progress :
         progress[i] = Updates[LastUpdate(progress[i].module)]
    /\ \A i, j \in DOMAIN progress :
         i < j => FirstUpdate(progress[i].module) < FirstUpdate(progress[j].module)

\* a module updated twice with different contents, another module updated
\* in between
C29_Witness_UpdatedAgainAfterAnother ==
    /\ Len(Updates) = MaxUpdates
    /\ Len(progress) < Len(Updates)
    /\ \E a, b, c \in DOMAIN Updates :
         /\ a < b /\ b < c
         /\ Updates[a].module = Updates[c].module
         /\ Updates[a] # Updates[c]
         /\ Updates[b].module # Updates[a].module

====
